---------------------------- MODULE Spec2Model ----------------------------
(***************************************************************************)
(* Instrumented graph-algorithm engine of the algorithm visualizer:        *)
(* the layered weighted-graph generator, Dijkstra and A* on it, the grid   *)
(* generator with BFS, Kruskal / Prim and the UnionFind class.             *)
(*                                                                         *)
(* Python's module-level random generator is modelled as a stream of raw  *)
(* draws: random.seed(s) rewinds the stream, _randbelow(n) consumes one    *)
(* raw draw r and returns r % n.  randint, sample and shuffle are the      *)
(* CPython algorithms on top of _randbelow.  The stream itself (what the   *)
(* Mersenne Twister emits after the seed) is an input of the model: a      *)
(* cyclic pattern drawn from a bounded set.                                *)
(***************************************************************************)
EXTENDS Integers, Sequences, FiniteSets, TLC

VARIABLES
    arr,        \* the parameter vector handed to the algorithm entry point
    stream,     \* raw output of the random generator after seeding
    dij,        \* frame of the dijkstra_weighted generator
    ast,        \* frame of the astar_weighted generator
    bfs,        \* frame of the graph_bfs generator
    kru,        \* frame of the kruskal generator
    prm,        \* frame of the prim generator
    uf,         \* a UnionFind object driven directly by a caller
    calls,      \* the union calls that caller has made so far
    dfs,        \* frame of the graph_dfs generator
    dijk,       \* frame of the dijkstra generator
    astr,       \* frame of the astar generator
    dgrid,      \* frame of the dijkstra_grid generator
    agrid,      \* frame of the astar_grid generator
    rng,        \* state of the module-level random generator
    gui,        \* playback state of the main windows
    log         \* what a caller of the generators did and got back, in order

vars == <<arr, stream, dij, ast, bfs, kru, prm, uf, calls,
          dfs, dijk, astr, dgrid, agrid, rng, gui, log>>

----------------------------------------------------------------------------
(* Bounds of the model *)

MaxLevel == 7       \* largest level parameter tried
StreamLen == 4      \* period of the raw random stream
RawMax == 5         \* raw draws range over 0 .. RawMax-1
DeepLevel == 5      \* level of the runs with the longer stream
DeepStreamLen == 5  \* period of the longer stream

(* Program constants *)

MinLayers == 3
MaxLayers == 10
DefaultLevel == 4
MinNodesInLayer == 3
MaxNodesInLayer == 5
MinWeight == 1
MaxWeight == 10
DenseLimit == 7
HeuristicScale == 3

Inf == -1           \* float('inf')

----------------------------------------------------------------------------
(* Small helpers *)

Min(a, b) == IF a < b THEN a ELSE b
Max(a, b) == IF a > b THEN a ELSE b
Abs(a) == IF a < 0 THEN -a ELSE a
Range(s) == {s[i] : i \in 1..Len(s)}

\* a < b on Python floats where Inf stands for float('inf')
Less(a, b) == IF b = Inf THEN a # Inf ELSE a # Inf /\ a < b

\* Python's tuple comparison on pairs of integers
TupleLess(a, b) == a[1] < b[1] \/ (a[1] = b[1] /\ a[2] < b[2])

----------------------------------------------------------------------------
(* The random module *)

\* random.seed(x): rewind the stream of the seed
Seed(pat) == [pat |-> pat, pos |-> 0]

\* the generator state of a process that has not seeded it
Unseeded == Seed(<<0>>)

\* the state r is left as it is
KeepState(r, pat) == r

\* random.seed(x) on the module-level generator in state r
Reseed(r, pat) == Seed(pat)

\* random._randbelow(n)
RandBelow(r, n) ==
    [v |-> r.pat[(r.pos % Len(r.pat)) + 1] % n,
     r |-> [r EXCEPT !.pos = @ + 1]]

\* random.randint(a, b) = a + _randbelow(b - a + 1)
RandInt(r, a, b) ==
    LET d == RandBelow(r, b - a + 1)
    IN  [v |-> a + d.v, r |-> d.r]

\* random.sample(population, k), pool branch:
\*   j = _randbelow(n - i); result[i] = pool[j]; pool[j] = pool[n - i - 1]
RECURSIVE SampleLoop(_, _, _, _, _)
SampleLoop(r, pool, i, k, result) ==
    IF i >= k THEN [v |-> result, r |-> r]
    ELSE LET n == Len(pool)
             d == RandBelow(r, n - i)
             j == d.v + 1
         IN  SampleLoop(d.r, [pool EXCEPT ![j] = pool[n - i]], i + 1, k,
                        Append(result, pool[j]))

Sample(r, population, k) == SampleLoop(r, population, 0, k, <<>>)

\* random.shuffle(x):
\*   for i in reversed(range(1, len(x))): j = _randbelow(i + 1); swap x[i], x[j]
RECURSIVE ShuffleLoop(_, _, _)
ShuffleLoop(r, x, i) ==
    IF i < 1 THEN [v |-> x, r |-> r]
    ELSE LET d == RandBelow(r, i + 1)
             j == d.v
         IN  ShuffleLoop(d.r, [x EXCEPT ![i + 1] = x[j + 1], ![j + 1] = x[i + 1]], i - 1)

Shuffle(r, x) == ShuffleLoop(r, x, Len(x) - 1)

----------------------------------------------------------------------------
(* _generate_weighted_graph (dijkstra_weighted.py) *)

\* level = arr[0] if arr and arr[0] > 0 else 4
LevelOf(a) == IF Len(a) > 0 /\ a[1] > 0 THEN a[1] ELSE DefaultLevel

\* num_layers = max(3, min(int(level), 10))
NumLayers(level) == Max(MinLayers, Min(level, MaxLayers))

\* middle layers: randint(3, 5) nodes each
RECURSIVE BuildLayers(_, _, _, _)
BuildLayers(r, layer_id, num_layers, layers) ==
    IF layer_id > num_layers - 2 THEN [v |-> layers, r |-> r]
    ELSE LET d == RandInt(r, MinNodesInLayer, MaxNodesInLayer)
             layer_nodes == [node_idx \in 1..d.v |-> <<layer_id, node_idx - 1>>]
         IN  BuildLayers(d.r, layer_id + 1, num_layers, Append(layers, layer_nodes))

\* interior layers: every node draws its number of connections and samples
\* that many targets in the next layer
RECURSIVE SampleTargetsNoMin(_, _, _, _, _, _, _)
SampleTargetsNoMin(r, current_layer, next_layer, i, min_conn, max_conn, acc) ==
    IF i > Len(current_layer) THEN [v |-> acc, r |-> r]
    ELSE LET upper == Min(max_conn, Len(next_layer))
             n == IF upper > 0 THEN RandInt(r, 0, upper) ELSE [v |-> 0, r |-> r]
             s == Sample(n.r, next_layer, n.v)
         IN  SampleTargetsNoMin(s.r, current_layer, next_layer, i + 1, min_conn, max_conn,
                                Append(acc, s.v))

RECURSIVE SampleTargets(_, _, _, _, _, _, _)
SampleTargets(r, current_layer, next_layer, i, min_conn, max_conn, acc) ==
    IF i > Len(current_layer) THEN [v |-> acc, r |-> r]
    ELSE LET upper == Min(max_conn, Len(next_layer))
             lower == Min(min_conn, upper)
             n == IF upper > 0 THEN RandInt(r, lower, upper) ELSE [v |-> 0, r |-> r]
             s == Sample(n.r, next_layer, n.v)
         IN  SampleTargets(s.r, current_layer, next_layer, i + 1, min_conn, max_conn,
                           Append(acc, s.v))

\* every layer pair is sampled: no full fan-out from start
TargetsPerNodeSampled(r, layers, layer_idx) ==
    LET dense == Len(layers) < DenseLimit
    IN  SampleTargets(r, layers[layer_idx + 1], layers[layer_idx + 2], 1,
                      IF dense THEN 2 ELSE 1, IF dense THEN 3 ELSE 2, <<>>)

\* targets_per_node of one layer pair, in the order of current_layer
TargetsPerNode(r, layers, layer_idx) ==
    LET current_layer == layers[layer_idx + 1]
        next_layer == layers[layer_idx + 2]
        dense == Len(layers) < DenseLimit
        min_conn == IF dense THEN 2 ELSE 1
        max_conn == IF dense THEN 3 ELSE 2
    IN  IF layer_idx = 0 \/ layer_idx = Len(layers) - 2
        THEN [v |-> [i \in 1..Len(current_layer) |-> next_layer], r |-> r]
        ELSE SampleTargets(r, current_layer, next_layer, 1, min_conn, max_conn, <<>>)

\* the (node, target) pairs of one layer pair in iteration order
RECURSIVE PairsOf(_, _, _, _)
PairsOf(current_layer, targets, i, acc) ==
    IF i > Len(current_layer) THEN acc
    ELSE PairsOf(current_layer, targets, i + 1,
                 acc \o [k \in 1..Len(targets[i]) |-> <<current_layer[i], targets[i][k]>>])

\* the edge stored without the mirrored adjacency entry
AddEdgeOneWay(g, node, target, weight) ==
    [edges |-> Append(g.edges, <<node, target, weight>>),
     adj_list |-> [g.adj_list EXCEPT ![node] = Append(@, <<target, weight>>)]]

\* edges.append((node, target, weight)); adj_list mirrored both ways
AddEdge(g, node, target, weight) ==
    [edges |-> Append(g.edges, <<node, target, weight>>),
     adj_list |-> [[g.adj_list EXCEPT ![node] = Append(@, <<target, weight>>)]
                        EXCEPT ![target] = Append(@, <<node, weight>>)]]

RECURSIVE AddEdges(_, _, _, _)
AddEdges(r, pairs, k, g) ==
    IF k > Len(pairs) THEN [v |-> g, r |-> r]
    ELSE LET node == pairs[k][1]
             target == pairs[k][2]
         IN  IF \E i \in 1..Len(g.edges) : g.edges[i][1] = node /\ g.edges[i][2] = target
             THEN AddEdges(r, pairs, k + 1, g)
             ELSE LET w == RandInt(r, MinWeight, MaxWeight)
                  IN  AddEdges(w.r, pairs, k + 1, AddEdge(g, node, target, w.v))

RECURSIVE ConnectLayers(_, _, _, _)
ConnectLayers(r, layers, layer_idx, g) ==
    IF layer_idx > Len(layers) - 2 THEN [v |-> g, r |-> r]
    ELSE LET t == TargetsPerNode(r, layers, layer_idx)
             pairs == PairsOf(layers[layer_idx + 1], t.v, 1, <<>>)
             e == AddEdges(t.r, pairs, 1, g)
         IN  \* the test has TLC evaluate this layer pair before the next one;
             \* the position in the stream is never negative
             IF e.r.pos >= 0
             THEN ConnectLayers(e.r, layers, layer_idx + 1, e.v)
             ELSE e

RECURSIVE Flatten(_, _)
Flatten(layers, i) ==
    IF i > Len(layers) THEN <<>> ELSE layers[i] \o Flatten(layers, i + 1)

generate_weighted_graph(r, a, pat) ==
    LET level == LevelOf(a)
        r0 == Reseed(r, pat)
        num_layers == NumLayers(level)
        start == <<0, 0>>
        goal == <<num_layers - 1, 0>>
        mid == BuildLayers(r0, 1, num_layers, << <<start>> >>)
        layers == Append(mid.v, <<goal>>)
        nodes == Flatten(layers, 1)
        g0 == [edges |-> <<>>, adj_list |-> [n \in Range(nodes) |-> <<>>]]
        c == ConnectLayers(mid.r, layers, 0, g0)
    IN  [nodes |-> nodes, edges |-> c.v.edges, adj_list |-> c.v.adj_list,
         start |-> start, goal |-> goal, layers |-> layers,
         \* node_scale = max(0.6, 1.05 - num_layers * 0.05), in hundredths
         node_scale |-> Max(60, 105 - num_layers * 5),
         r |-> c.r]

----------------------------------------------------------------------------
(* heapq on (priority, node) entries with node = (layer, index) *)

EntryLess(a, b) == a[1] < b[1] \/ (a[1] = b[1] /\ TupleLess(a[2], b[2]))

\* index of the entry heapq.heappop returns: the smallest tuple
HeapMinIdx(pq) ==
    CHOOSE i \in 1..Len(pq) :
        /\ \A j \in 1..Len(pq) : ~EntryLess(pq[j], pq[i])
        /\ \A j \in 1..(i - 1) : pq[j] # pq[i]

RemoveAt(s, i) == SubSeq(s, 1, i - 1) \o SubSeq(s, i + 1, Len(s))

HeapPush(pq, e) == Append(pq, e)

\* while node in parent: path.append(node); node = parent[node]
\* path.append(start); path.reverse()
RECURSIVE WalkParents(_, _, _)
WalkParents(parent, node, path) ==
    IF node \in DOMAIN parent
    THEN WalkParents(parent, parent[node], <<node>> \o path)
    ELSE path

ReconstructPath(parent, start, goal) == <<start>> \o WalkParents(parent, goal, <<>>)

PathEdges(path) == [i \in 1..(Len(path) - 1) |-> <<path[i], path[i + 1]>>]

----------------------------------------------------------------------------
(* dijkstra_weighted (dijkstra_weighted.py) *)

NoFrame == [pc |-> "new", action |-> "none"]

\* no main window has been opened
NoWindows == <<>>

\* the random generator after dijkstra_weighted or astar_weighted began
RandomAfterWeighted(r, a, pat) ==
    IF Len(a) = 0 THEN r ELSE generate_weighted_graph(r, a, pat).r

\* for neighbor, weight in adj_list.get(current, []): relax
RECURSIVE DijkstraRelaxEdgeOnly(_, _, _)
DijkstraRelaxEdgeOnly(f, current, k) ==
    LET nbrs == f.adj_list[current] IN
    IF k > Len(nbrs) THEN f
    ELSE LET neighbor == nbrs[k][1]
             weight == nbrs[k][2]
             new_dist == weight
         IN  IF neighbor \in f.visited THEN DijkstraRelaxEdgeOnly(f, current, k + 1)
             ELSE IF Less(new_dist, f.distances[neighbor])
             THEN DijkstraRelaxEdgeOnly(
                    [f EXCEPT !.distances[neighbor] = new_dist,
                              !.parent = [n \in DOMAIN f.parent \cup {neighbor} |->
                                             IF n = neighbor THEN current ELSE f.parent[n]],
                              !.pq = HeapPush(f.pq, <<new_dist, neighbor>>),
                              !.action = "push_queue"],
                    current, k + 1)
             ELSE DijkstraRelaxEdgeOnly([f EXCEPT !.action = "check_better"], current, k + 1)

RECURSIVE DijkstraRelax(_, _, _)
DijkstraRelax(f, current, k) ==
    LET nbrs == f.adj_list[current] IN
    IF k > Len(nbrs) THEN f
    ELSE LET neighbor == nbrs[k][1]
             weight == nbrs[k][2]
             new_dist == f.distances[current] + weight
             after ==
                 IF neighbor \in f.visited THEN f
                 ELSE IF Less(new_dist, f.distances[neighbor])
                 THEN [f EXCEPT !.distances[neighbor] = new_dist,
                                !.parent = [n \in DOMAIN f.parent \cup {neighbor} |->
                                               IF n = neighbor THEN current ELSE f.parent[n]],
                                !.pq = HeapPush(f.pq, <<new_dist, neighbor>>),
                                !.action = "push_queue"]
                 ELSE [f EXCEPT !.action = "check_better"]
         IN  \* the loop goes on from the frame after this neighbour, x being
             \* that one frame as a value
             CHOOSE r \in {DijkstraRelax(x, current, k + 1) : x \in {after}} : TRUE

\* entry: generate the graph, initialise the bookkeeping, yield 'start'
\* the locals of dijkstra_weighted at its first yield, on the graph g
DijkstraInit(g) ==
    [pc |-> "loop", action |-> "start", description |-> "start",
     nodes |-> g.nodes, edges |-> g.edges, adj_list |-> g.adj_list,
     start |-> g.start, goal |-> g.goal, layers |-> g.layers,
     distances |-> [n \in Range(g.nodes) |-> IF n = g.start THEN 0 ELSE Inf],
     pq |-> << <<0, g.start>> >>,
     visited |-> {},
     parent |-> <<>>,
     current |-> <<>>,
     path |-> <<>>,
     step |-> 0,
     stats |-> [nodes_visited |-> 0, path_length |-> 0, steps |-> 0,
                total_cost |-> 0]]

DijkstraBegin(r, a, pat) ==
    IF Len(a) = 0 THEN [pc |-> "returned", action |-> "none"]
    ELSE LET g == generate_weighted_graph(r, a, pat) IN
         IF Len(g.nodes) = 0 THEN [pc |-> "returned", action |-> "none"]
         ELSE DijkstraInit(g)

\* the generator ends when the queue is empty without a last step
DijkstraNoPathSilent(f) == [f EXCEPT !.pc = "returned"]

\* the statements after `while pq:`: the terminal no-path step
DijkstraNoPath(f) ==
    [f EXCEPT !.pc = "returned", !.action = "done", !.current = <<>>,
              !.path = <<>>, !.description = "no_path",
              !.stats = [nodes_visited |-> Cardinality(f.visited),
                         path_length |-> 0, steps |-> f.step, total_cost |-> 0]]

\* `if current in visited: ... continue` left out: an entry of a finalized
\* node is processed like any other
DijkstraPassNoSkip(f) ==
    IF Len(f.pq) = 0
    THEN DijkstraNoPath(f)
    ELSE LET i == HeapMinIdx(f.pq)
             current == f.pq[i][2]
             popped == [f EXCEPT !.pq = RemoveAt(f.pq, i), !.current = current]
         IN  IF current = f.goal
             THEN LET path == ReconstructPath(f.parent, f.start, f.goal)
                  IN  [popped EXCEPT !.pc = "returned", !.action = "done",
                           !.path = path, !.description = "path_found",
                           !.stats = [nodes_visited |-> Cardinality(f.visited),
                                      path_length |-> f.distances[f.goal],
                                      steps |-> f.step,
                                      total_cost |-> f.distances[f.goal]]]
             ELSE LET v == [popped EXCEPT !.visited = @ \cup {current},
                                          !.step = @ + 1,
                                          !.description = "progress",
                                          !.action = "neighbors"]
                      rel == DijkstraRelax(v, current, 1)
                  IN  [rel EXCEPT !.stats = [nodes_visited |-> Cardinality(rel.visited),
                                             path_length |-> 0, steps |-> rel.step,
                                             total_cost |-> 0]]

\* one pass of `while pq:` up to the end of the neighbour loop, or the
\* statements after the loop when the queue is empty
DijkstraPass(f) ==
    IF Len(f.pq) = 0
    THEN DijkstraNoPath(f)
    ELSE LET i == HeapMinIdx(f.pq)
             current_dist == f.pq[i][1]
             current == f.pq[i][2]
             popped == [f EXCEPT !.pq = RemoveAt(f.pq, i), !.current = current]
         IN  IF current \in f.visited
             THEN [popped EXCEPT !.action = "skip_visited",
                       !.description = "progress",
                       !.stats = [nodes_visited |-> Cardinality(f.visited),
                                  path_length |-> 0, steps |-> f.step,
                                  total_cost |-> current_dist]]
             ELSE IF current = f.goal
             THEN LET path == ReconstructPath(f.parent, f.start, f.goal)
                  IN  [popped EXCEPT !.pc = "returned", !.action = "done",
                           !.path = path, !.description = "path_found",
                           !.stats = [nodes_visited |-> Cardinality(f.visited),
                                      path_length |-> f.distances[f.goal],
                                      steps |-> f.step,
                                      total_cost |-> f.distances[f.goal]]]
             ELSE LET v == [popped EXCEPT !.visited = @ \cup {current},
                                          !.step = @ + 1,
                                          !.description = "progress",
                                          !.action = "neighbors"]
                      rel == DijkstraRelax(v, current, 1)
                  IN  [rel EXCEPT !.stats = [nodes_visited |-> Cardinality(rel.visited),
                                             path_length |-> 0, steps |-> rel.step,
                                             total_cost |-> 0]]

----------------------------------------------------------------------------
(* astar_weighted (astar_weighted.py) *)

\* _heuristic(node, goal, nodes): layer distance times 3 for tuple nodes
heuristic(node, goal) == Abs(goal[1] - node[1]) * HeuristicScale

RECURSIVE AstarRelax(_, _, _)
AstarRelax(f, current, k) ==
    LET nbrs == f.adj_list[current] IN
    IF k > Len(nbrs) THEN f
    ELSE LET neighbor == nbrs[k][1]
             weight == nbrs[k][2]
             tentative_g == f.g_score[current] + weight
             h == heuristic(neighbor, f.goal)
             after ==
                 IF neighbor \in f.visited THEN f
                 ELSE IF Less(tentative_g, f.g_score[neighbor])
                 THEN [f EXCEPT !.g_score[neighbor] = tentative_g,
                                !.f_score[neighbor] = tentative_g + h,
                                !.parent = [n \in DOMAIN f.parent \cup {neighbor} |->
                                               IF n = neighbor THEN current ELSE f.parent[n]],
                                !.pq = HeapPush(f.pq, <<tentative_g + h, neighbor>>),
                                !.action = "push_queue"]
                 ELSE [f EXCEPT !.action = "check_better"]
         IN  \* the loop goes on from the frame after this neighbour, x being
             \* that one frame as a value
             CHOOSE r \in {AstarRelax(x, current, k + 1) : x \in {after}} : TRUE


\* the locals of astar_weighted at its first yield, on the graph g
AstarInit(g) ==
    [pc |-> "loop", action |-> "start", description |-> "start",
     nodes |-> g.nodes, edges |-> g.edges, adj_list |-> g.adj_list,
     start |-> g.start, goal |-> g.goal, layers |-> g.layers,
     g_score |-> [n \in Range(g.nodes) |-> IF n = g.start THEN 0 ELSE Inf],
     f_score |-> [n \in Range(g.nodes) |->
                     IF n = g.start THEN heuristic(g.start, g.goal) ELSE Inf],
     pq |-> << <<heuristic(g.start, g.goal), g.start>> >>,
     visited |-> {},
     parent |-> <<>>,
     current |-> <<>>,
     path |-> <<>>,
     step |-> 0,
     stats |-> [nodes_visited |-> 0, path_length |-> 0, steps |-> 0,
                total_cost |-> 0]]

AstarBegin(r, a, pat) ==
    IF Len(a) = 0 THEN [pc |-> "returned", action |-> "none"]
    ELSE LET g == generate_weighted_graph(r, a, pat) IN
         IF Len(g.nodes) = 0 THEN [pc |-> "returned", action |-> "none"]
         ELSE AstarInit(g)

\* the statements after `while pq:`: the terminal no-path step
AstarNoPath(f) ==
    [f EXCEPT !.pc = "returned", !.action = "done", !.current = <<>>,
              !.path = <<>>, !.description = "no_path",
              !.stats = [nodes_visited |-> Cardinality(f.visited),
                         path_length |-> 0, steps |-> f.step, total_cost |-> 0]]

AstarPass(f) ==
    IF Len(f.pq) = 0
    THEN AstarNoPath(f)
    ELSE LET i == HeapMinIdx(f.pq)
             current == f.pq[i][2]
             popped == [f EXCEPT !.pq = RemoveAt(f.pq, i), !.current = current]
         IN  IF current \in f.visited
             THEN [popped EXCEPT !.action = "skip_visited",
                       !.description = "progress",
                       !.stats = [nodes_visited |-> Cardinality(f.visited),
                                  path_length |-> 0, steps |-> f.step,
                                  total_cost |-> 0]]
             ELSE IF current = f.goal
             THEN LET path == ReconstructPath(f.parent, f.start, f.goal)
                  IN  [popped EXCEPT !.pc = "returned", !.action = "done",
                           !.path = path, !.description = "path_found",
                           !.stats = [nodes_visited |-> Cardinality(f.visited),
                                      path_length |-> f.g_score[f.goal],
                                      steps |-> f.step,
                                      total_cost |-> f.g_score[f.goal]]]
             ELSE LET v == [popped EXCEPT !.visited = @ \cup {current},
                                          !.step = @ + 1,
                                          !.description = "progress",
                                          !.action = "neighbors"]
                      rel == AstarRelax(v, current, 1)
                  IN  [rel EXCEPT !.stats = [nodes_visited |-> Cardinality(rel.visited),
                                             path_length |-> 0, steps |-> rel.step,
                                             total_cost |-> 0]]

----------------------------------------------------------------------------
(* Dijkstra then A* on the graph of the same level, as the comparison     *)
(* tests drive them (test_weighted_graph.py, test_layered_graph.py)       *)

Levels == 0..MaxLevel
Streams == [1..StreamLen -> 0..(RawMax - 1)]

Init ==
    /\ arr \in {<<l>> : l \in Levels}
    /\ stream \in Streams
    /\ dij = NoFrame
    /\ ast = NoFrame
    /\ bfs = NoFrame
    /\ kru = NoFrame
    /\ prm = NoFrame
    /\ uf = NoFrame
    /\ calls = {}
    /\ dfs = NoFrame
    /\ dijk = NoFrame
    /\ astr = NoFrame
    /\ dgrid = NoFrame
    /\ agrid = NoFrame
    /\ rng = Unseeded
    /\ gui = NoWindows
    /\ log = <<>>

\* first next() on dijkstra_weighted(arr)
DijkstraStart ==
    /\ dij.pc = "new"
    /\ dij' = DijkstraBegin(rng, arr, stream)
    /\ rng' = RandomAfterWeighted(rng, arr, stream)
    /\ UNCHANGED <<arr, stream, ast, bfs, kru, prm, uf, calls,
                     dfs, dijk, astr, dgrid, agrid, gui, log>>

\* a later next() on the Dijkstra generator, up to the loop boundary
DijkstraStep ==
    /\ dij.pc = "loop"
    /\ dij' = DijkstraPass(dij)
    /\ UNCHANGED <<arr, stream, ast, bfs, kru, prm, uf, calls,
                     dfs, dijk, astr, dgrid, agrid, rng, gui, log>>

\* first next() on astar_weighted(arr), after the Dijkstra run was drained
AstarStart ==
    /\ dij.pc = "returned"
    /\ ast.pc = "new"
    /\ ast' = AstarBegin(rng, arr, stream)
    /\ rng' = RandomAfterWeighted(rng, arr, stream)
    /\ UNCHANGED <<arr, stream, dij, bfs, kru, prm, uf, calls,
                     dfs, dijk, astr, dgrid, agrid, gui, log>>

AstarStep ==
    /\ ast.pc = "loop"
    /\ ast' = AstarPass(ast)
    /\ UNCHANGED <<arr, stream, dij, bfs, kru, prm, uf, calls,
                     dfs, dijk, astr, dgrid, agrid, rng, gui, log>>

Next == DijkstraStart \/ DijkstraStep \/ AstarStart \/ AstarStep

Spec == Init /\ [][Next]_vars

\* the same runs on five-layer graphs drawn from a longer random stream
InitDeep ==
    /\ arr = <<DeepLevel>>
    /\ stream \in [1..DeepStreamLen -> 0..(RawMax - 1)]
    /\ dij = NoFrame
    /\ ast = NoFrame
    /\ bfs = NoFrame
    /\ kru = NoFrame
    /\ prm = NoFrame
    /\ uf = NoFrame
    /\ calls = {}
    /\ dfs = NoFrame
    /\ dijk = NoFrame
    /\ astr = NoFrame
    /\ dgrid = NoFrame
    /\ agrid = NoFrame
    /\ rng = Unseeded
    /\ gui = NoWindows
    /\ log = <<>>

SpecDeep == InitDeep /\ [][Next]_vars

----------------------------------------------------------------------------
(* Reference notions used to state the properties *)

SetMin(S) == CHOOSE x \in S : \A y \in S : x <= y

\* Bellman-Ford rounds over an adjacency map, up to the fixpoint
RECURSIVE BellmanFord(_, _, _)
BellmanFord(adj, d, k) ==
    LET e == [n \in DOMAIN adj |->
                LET c == ({d[n]} \ {Inf}) \cup
                         {d[adj[n][i][1]] + adj[n][i][2] :
                             i \in {j \in 1..Len(adj[n]) : d[adj[n][j][1]] # Inf}}
                IN  IF c = {} THEN Inf ELSE SetMin(c)]
    IN  IF k = 0 \/ e = d THEN d ELSE BellmanFord(adj, e, k - 1)

\* minimum total weight of a path from src to every node (Inf: no path)
MinCost(adj, src) ==
    BellmanFord(adj, [n \in DOMAIN adj |-> IF n = src THEN 0 ELSE Inf],
                Cardinality(DOMAIN adj))

\* nodes reachable from src over the adjacency map
RECURSIVE ReachFrom(_, _)
ReachFrom(adj, S) ==
    LET T == S \cup
             UNION {{adj[n][i][1] : i \in 1..Len(adj[n])} : n \in S}
    IN  IF T = S THEN S ELSE ReachFrom(adj, T)

\* the weights stored for the step u -> v in the adjacency map
StepWeights(adj, u, v) == {adj[u][i][2] : i \in {j \in 1..Len(adj[u]) : adj[u][j][1] = v}}

RECURSIVE PathCost(_, _, _)
PathCost(adj, path, i) ==
    IF i >= Len(path) THEN 0
    ELSE SetMin(StepWeights(adj, path[i], path[i + 1])) + PathCost(adj, path, i + 1)

IsPath(adj, path, from, to) ==
    /\ Len(path) >= 1
    /\ path[1] = from
    /\ path[Len(path)] = to
    /\ \A i \in 1..(Len(path) - 1) : StepWeights(adj, path[i], path[i + 1]) # {}

DijkstraReachedGoal == dij.pc = "returned" /\ dij.action = "done" /\ dij.current = dij.goal
AstarReachedGoal == ast.pc = "returned" /\ ast.action = "done" /\ ast.current = ast.goal

----------------------------------------------------------------------------
(* C2: when dijkstra_weighted pops the goal, the total_cost of its final  *)
(* 'done' step is the minimum total weight over all start-to-goal paths,   *)
(* and the reported path is a chain of adjacent nodes from start to goal   *)
(* whose edge weights sum to that cost.                                    *)
C2_DijkstraOptimal ==
    DijkstraReachedGoal =>
        /\ dij.stats.total_cost = MinCost(dij.adj_list, dij.start)[dij.goal]
        /\ IsPath(dij.adj_list, dij.path, dij.start, dij.goal)
        /\ PathCost(dij.adj_list, dij.path, 1) = dij.stats.total_cost

\* a finished run on a graph of at least five layers where the first
\* tentative distance of some node was later improved
C2_Witness ==
    /\ DijkstraReachedGoal
    /\ Len(dij.layers) >= 5
    /\ Len(dij.path) = Len(dij.layers)
    /\ dij.stats.total_cost > Len(dij.layers)

(* C3: Dijkstra and A* on the same generated graph report the same total  *)
(* path cost in their final step.                                          *)
C3_SameCost ==
    (DijkstraReachedGoal /\ AstarReachedGoal) =>
        ast.stats.total_cost = dij.stats.total_cost

(* C4: A* never reports more visited nodes than Dijkstra on the same      *)
(* generated graph.                                                        *)
C4_AstarVisitsNoMore ==
    (DijkstraReachedGoal /\ AstarReachedGoal) =>
        ast.stats.nodes_visited <= dij.stats.nodes_visited

(* C5: the layered-graph heuristic never overestimates: for every node n  *)
(* of a generated graph, _heuristic(n, goal) is at most the minimum cost   *)
(* of a path from n to goal.                                               *)
C5_HeuristicAdmissible ==
    ast.action = "start" =>
        LET toGoal == MinCost(ast.adj_list, ast.goal)
        IN  \A n \in Range(ast.nodes) : heuristic(n, ast.goal) <= toGoal[n]

(* C10: every generated layered graph has no isolated node and is         *)
(* connected over the adjacency map: a search from start reaches every     *)
(* node.                                                                   *)
C10_Connected ==
    dij.action = "start" =>
        /\ \A n \in Range(dij.nodes) : Len(dij.adj_list[n]) >= 1
        /\ ReachFrom(dij.adj_list, {dij.start}) = Range(dij.nodes)

\* a sparse graph (seven layers or more) in which some interior node has a
\* single edge to the next layer and some interior node has no edge from
\* the previous layer
C10_Witness ==
    /\ dij.action = "start"
    /\ Len(dij.layers) >= DenseLimit
    /\ \E n \in Range(dij.nodes) :
          /\ n[1] >= 1 /\ n[1] < Len(dij.layers) - 2
          /\ Cardinality({i \in 1..Len(dij.edges) : dij.edges[i][1] = n}) = 1
    /\ \E n \in Range(dij.nodes) :
          /\ n[1] >= 2 /\ n[1] <= Len(dij.layers) - 2
          /\ ~\E i \in 1..Len(dij.edges) : dij.edges[i][2] = n

----------------------------------------------------------------------------
(* class UnionFind (kruskal.py) *)

\* __init__: parent[node] = node, rank[node] = 0
UnionFind(nodes) == [parent |-> [n \in nodes |-> n], rank |-> [n \in nodes |-> 0]]

UFFindOneHop(u, node) == [v |-> u.parent[node], uf |-> u]

\* find without path compression: the root is returned, no pointer is set
RECURSIVE UFFindNoCompress(_, _)
UFFindNoCompress(u, node) ==
    IF u.parent[node] # node
    THEN UFFindNoCompress(u, u.parent[node])
    ELSE [v |-> node, uf |-> u]

\* find(node) with path compression; returns the root and the object after
RECURSIVE UFFind(_, _)
UFFind(u, node) ==
    IF u.parent[node] # node
    THEN LET r == UFFind(u, u.parent[node])
         IN  [v |-> r.v, uf |-> [r.uf EXCEPT !.parent[node] = r.v]]
    ELSE [v |-> u.parent[node], uf |-> u]

UFUnionNoRoots(u, node1, node2) ==
    LET f1 == UFFind(u, node1)
        f2 == UFFind(f1.uf, node2)
        w == f2.uf
    IN  IF f1.v = f2.v THEN [v |-> FALSE, uf |-> w]
        ELSE [v |-> TRUE, uf |-> [w EXCEPT !.parent[node2] = node1]]

\* the rank of the surviving root grows on every merge, not only on a tie
UFUnionRankAlways(u, node1, node2) ==
    LET f1 == UFFind(u, node1)
        f2 == UFFind(f1.uf, node2)
        root1 == f1.v
        root2 == f2.v
        w == f2.uf
    IN  IF root1 = root2 THEN [v |-> FALSE, uf |-> w]
        ELSE IF w.rank[root1] < w.rank[root2]
        THEN [v |-> TRUE, uf |-> [w EXCEPT !.parent[root1] = root2,
                                           !.rank[root2] = @ + 1]]
        ELSE [v |-> TRUE, uf |-> [w EXCEPT !.parent[root2] = root1,
                                           !.rank[root1] = @ + 1]]

\* the rank comparison is the wrong way round: the root of higher rank is
\* attached under the root of lower rank
UFUnionFlipped(u, node1, node2) ==
    LET f1 == UFFind(u, node1)
        f2 == UFFind(f1.uf, node2)
        root1 == f1.v
        root2 == f2.v
        w == f2.uf
    IN  IF root1 = root2 THEN [v |-> FALSE, uf |-> w]
        ELSE IF w.rank[root1] > w.rank[root2]
        THEN [v |-> TRUE, uf |-> [w EXCEPT !.parent[root1] = root2]]
        ELSE IF w.rank[root1] < w.rank[root2]
        THEN [v |-> TRUE, uf |-> [w EXCEPT !.parent[root2] = root1]]
        ELSE [v |-> TRUE, uf |-> [w EXCEPT !.parent[root2] = root1,
                                           !.rank[root1] = @ + 1]]

\* union(node1, node2) by rank; returns the result and the object after
UFUnion(u, node1, node2) ==
    LET f1 == UFFind(u, node1)
        f2 == UFFind(f1.uf, node2)
        root1 == f1.v
        root2 == f2.v
        w == f2.uf
    IN  IF root1 = root2 THEN [v |-> FALSE, uf |-> w]
        ELSE IF w.rank[root1] < w.rank[root2]
        THEN [v |-> TRUE, uf |-> [w EXCEPT !.parent[root1] = root2]]
        ELSE IF w.rank[root1] > w.rank[root2]
        THEN [v |-> TRUE, uf |-> [w EXCEPT !.parent[root2] = root1]]
        ELSE [v |-> TRUE, uf |-> [w EXCEPT !.parent[root2] = root1,
                                           !.rank[root1] = @ + 1]]

----------------------------------------------------------------------------
(* _generate_graph (kruskal.py; prim.py and dijkstra.py carry the same    *)
(* text)                                                                   *)

MaxGraphNodes == 8

\* sorted(list(set(arr)))
RECURSIVE SortedSet(_)
SortedSet(S) ==
    IF S = {} THEN <<>>
    ELSE LET m == SetMin(S) IN <<m>> \o SortedSet(S \ {m})

\* weight = abs(u - v) % 10 + 1
EdgeWeight(u, v) == (Abs(u - v) % 10) + 1

AddUndirected(g, u, v) ==
    [edges |-> Append(g.edges, <<u, v, EdgeWeight(u, v)>>),
     adj_list |-> [[g.adj_list EXCEPT ![u] = Append(@, <<v, EdgeWeight(u, v)>>)]
                        EXCEPT ![v] = Append(@, <<u, EdgeWeight(u, v)>>)]]

\* connect consecutive array elements
RECURSIVE ConnectArray(_, _, _, _)
ConnectArray(a, nodes, i, g) ==
    IF i > Len(a) - 1 THEN g
    ELSE IF a[i] \in Range(nodes) /\ a[i + 1] \in Range(nodes)
    THEN LET u == a[i]
             v == a[i + 1]
             edge_exists == \E k \in 1..Len(g.edges) :
                                \/ g.edges[k][1] = u /\ g.edges[k][2] = v
                                \/ g.edges[k][1] = v /\ g.edges[k][2] = u
         IN  ConnectArray(a, nodes, i + 1, IF edge_exists THEN g ELSE AddUndirected(g, u, v))
    ELSE ConnectArray(a, nodes, i + 1, g)

\* "ensure graph is connected": chain the sorted nodes
RECURSIVE ConnectChain(_, _, _)
ConnectChain(nodes, i, g) ==
    IF i > Len(nodes) - 1 THEN g
    ELSE LET u == nodes[i]
             v == nodes[i + 1]
         IN  IF \E k \in 1..Len(g.adj_list[u]) : g.adj_list[u][k][1] = v
             THEN ConnectChain(nodes, i + 1, g)
             ELSE ConnectChain(nodes, i + 1, AddUndirected(g, u, v))

generate_graph(a) ==
    LET all == SortedSet(Range(a))
        nodes == SubSeq(all, 1, Min(Len(all), MaxGraphNodes))
    IN  IF Len(nodes) < 2 THEN [nodes |-> nodes, edges |-> <<>>, adj_list |-> <<>>]
        ELSE LET g0 == [edges |-> <<>>, adj_list |-> [n \in Range(nodes) |-> <<>>]]
                 g1 == ConnectArray(a, nodes, 1, g0)
                 g2 == IF Len(g1.edges) < Len(nodes) - 1
                       THEN ConnectChain(nodes, 1, g1) ELSE g1
             IN  [nodes |-> nodes, edges |-> g2.edges, adj_list |-> g2.adj_list]

\* adj_list.get(node, [])
AdjGet(adj_list, node) == IF node \in DOMAIN adj_list THEN adj_list[node] ELSE <<>>

----------------------------------------------------------------------------
(* kruskal (kruskal.py) *)

\* sorted(edges, key=lambda x: x[2]): stable, ascending by weight
RECURSIVE InsertByWeight(_, _)
InsertByWeight(sorted, e) ==
    IF sorted = <<>> THEN <<e>>
    ELSE IF sorted[Len(sorted)][3] <= e[3] THEN Append(sorted, e)
    ELSE Append(InsertByWeight(SubSeq(sorted, 1, Len(sorted) - 1), e), sorted[Len(sorted)])

RECURSIVE SortLoop(_, _, _)
SortLoop(edges, i, acc) ==
    IF i > Len(edges) THEN acc ELSE SortLoop(edges, i + 1, InsertByWeight(acc, edges[i]))

Unsorted(edges) == edges

SortedByWeight(edges) == SortLoop(edges, 1, <<>>)

\* the statements from the UnionFind construction up to the 'start' step
\* the locals of kruskal at its first yield; yielded lists the steps of the
\* last pass, each with its action and highlighted_edges
KruskalInit(nodes, edges) ==
    [pc |-> "loop", action |-> "start",
     nodes |-> nodes, edges |-> edges,
     uf |-> UnionFind(Range(nodes)),
     sorted_edges |-> SortedByWeight(edges),
     mst_edges |-> {},
     total_weight |-> 0,
     i |-> 0,
     yielded |-> <<[action |-> "start", highlighted_edges |-> <<>>]>>,
     highlighted_edges |-> <<>>]

KruskalBegin(a) ==
    IF Len(a) = 0 THEN [pc |-> "returned", action |-> "none"]
    ELSE LET g == generate_graph(a) IN
         IF Len(g.nodes) = 0 \/ Len(g.edges) = 0
         THEN [pc |-> "returned", action |-> "none"]
         ELSE KruskalInit(g.nodes, g.edges)

\* the two steps of a pass of the for loop on the edge (u, v): 'consider',
\* then the outcome
KruskalSteps(u, v, outcome) ==
    <<[action |-> "consider", highlighted_edges |-> << <<u, v>> >>],
      [action |-> outcome, highlighted_edges |-> << <<u, v>> >>]>>

\* the for loop without the cycle test: every edge considered is added
KruskalPassAddAll(f) ==
    IF f.i >= Len(f.sorted_edges) \/
       (f.i >= 1 /\ Cardinality(f.mst_edges) = Len(f.nodes) - 1)
    THEN [f EXCEPT !.pc = "returned", !.action = "done", !.highlighted_edges = <<>>,
                   !.yielded = <<[action |-> "done", highlighted_edges |-> <<>>]>>]
    ELSE LET e == f.sorted_edges[f.i + 1]
         IN  [f EXCEPT !.mst_edges = @ \cup {<<e[1], e[2]>>},
                       !.total_weight = @ + e[3],
                       !.i = @ + 1,
                       !.highlighted_edges = << <<e[1], e[2]>> >>,
                       !.yielded = KruskalSteps(e[1], e[2], "add_edge"),
                       !.action = "add_edge"]

\* the for loop without the break on a complete tree
KruskalPassNoBreak(f) ==
    IF f.i >= Len(f.sorted_edges)
    THEN [f EXCEPT !.pc = "returned", !.action = "done", !.highlighted_edges = <<>>,
                   !.yielded = <<[action |-> "done", highlighted_edges |-> <<>>]>>]
    ELSE LET e == f.sorted_edges[f.i + 1]
             u == e[1]
             v == e[2]
             weight == e[3]
             fu == UFFind(f.uf, u)
             fv == UFFind(fu.uf, v)
         IN  IF fu.v # fv.v
             THEN [f EXCEPT !.uf = UFUnion(fv.uf, u, v).uf,
                            !.mst_edges = @ \cup {<<u, v>>},
                            !.total_weight = @ + weight,
                            !.i = @ + 1,
                            !.highlighted_edges = << <<u, v>> >>,
                            !.yielded = KruskalSteps(u, v, "add_edge"),
                            !.action = "add_edge"]
             ELSE [f EXCEPT !.uf = fv.uf,
                            !.i = @ + 1,
                            !.highlighted_edges = << <<u, v>> >>,
                            !.yielded = KruskalSteps(u, v, "skip"),
                            !.action = "skip"]

\* one pass of the for loop ('consider' then 'add_edge' or 'skip'), or the
\* 'done' step once the list is used up or the break was taken
KruskalPass(f) ==
    IF f.i >= Len(f.sorted_edges) \/
       (f.i >= 1 /\ Cardinality(f.mst_edges) = Len(f.nodes) - 1)
    THEN [f EXCEPT !.pc = "returned", !.action = "done", !.highlighted_edges = <<>>,
                   !.yielded = <<[action |-> "done", highlighted_edges |-> <<>>]>>]
    ELSE LET e == f.sorted_edges[f.i + 1]
             u == e[1]
             v == e[2]
             weight == e[3]
             fu == UFFind(f.uf, u)
             fv == UFFind(fu.uf, v)
         IN  IF fu.v # fv.v
             THEN [f EXCEPT !.uf = UFUnion(fv.uf, u, v).uf,
                            !.mst_edges = @ \cup {<<u, v>>},
                            !.total_weight = @ + weight,
                            !.i = @ + 1,
                            !.highlighted_edges = << <<u, v>> >>,
                            !.yielded = KruskalSteps(u, v, "add_edge"),
                            !.action = "add_edge"]
             ELSE [f EXCEPT !.uf = fv.uf,
                            !.i = @ + 1,
                            !.highlighted_edges = << <<u, v>> >>,
                            !.yielded = KruskalSteps(u, v, "skip"),
                            !.action = "skip"]

----------------------------------------------------------------------------
(* prim (prim.py) *)

\* tuple comparison on (weight, from_node, to_node)
TripleLess(a, b) ==
    \/ a[1] < b[1]
    \/ a[1] = b[1] /\ a[2] < b[2]
    \/ a[1] = b[1] /\ a[2] = b[2] /\ a[3] < b[3]

PrimMinIdx(pq) ==
    CHOOSE i \in 1..Len(pq) :
        /\ \A j \in 1..Len(pq) : ~TripleLess(pq[j], pq[i])
        /\ \A j \in 1..(i - 1) : pq[j] # pq[i]

\* heappush of every adjacency entry of node that passes the filter
RECURSIVE PushEdges(_, _, _, _, _)
PushEdges(pq, node, nbrs, k, skip) ==
    IF k > Len(nbrs) THEN pq
    ELSE IF nbrs[k][1] \in skip THEN PushEdges(pq, node, nbrs, k + 1, skip)
    ELSE PushEdges(HeapPush(pq, <<nbrs[k][2], node, nbrs[k][1]>>), node, nbrs, k + 1, skip)

PrimBegin(a) ==
    IF Len(a) = 0 THEN [pc |-> "returned", action |-> "none"]
    ELSE LET g == generate_graph(a) IN
         IF Len(g.nodes) = 0 THEN [pc |-> "returned", action |-> "none"]
         ELSE LET start_node == g.nodes[1] IN
              [pc |-> "loop", action |-> "start",
               nodes |-> g.nodes, edges |-> g.edges, adj_list |-> g.adj_list,
               mst_edges |-> {},
               visited |-> {start_node},
               pq |-> PushEdges(<<>>, start_node, AdjGet(g.adj_list, start_node), 1, {}),
               total_weight |-> 0,
               current_node |-> start_node,
               yielded |-> <<"start">>,
               highlighted_edges |-> <<>>]

\* the while loop without the test `if to_node in visited: continue`
PrimPassNoDiscard(f) ==
    IF Len(f.pq) = 0 \/ Cardinality(f.visited) >= Len(f.nodes)
    THEN [f EXCEPT !.pc = "returned", !.action = "done", !.current_node = 0,
                   !.yielded = <<"done">>,
                   !.highlighted_edges = <<>>]
    ELSE LET i == PrimMinIdx(f.pq)
             weight == f.pq[i][1]
             from_node == f.pq[i][2]
             to_node == f.pq[i][3]
             rest == RemoveAt(f.pq, i)
             visited == f.visited \cup {to_node}
             nbrs == AdjGet(f.adj_list, to_node)
             pushed == PushEdges(rest, to_node, nbrs, 1, visited)
         IN  [f EXCEPT !.pq = pushed,
                       !.mst_edges = @ \cup {<<from_node, to_node>>},
                       !.visited = visited,
                       !.total_weight = @ + weight,
                       !.current_node = to_node,
                       !.yielded = <<"add_edge">> \o
                           [k \in 1..(Len(pushed) - Len(rest)) |-> "consider"],
                       !.highlighted_edges = << <<from_node, to_node>> >>,
                       !.action = "add_edge"]

\* one pass of `while pq and len(visited) < len(nodes)`, or the 'done' step;
\* yielded lists the actions of the steps the pass emits
PrimPass(f) ==
    IF Len(f.pq) = 0 \/ Cardinality(f.visited) >= Len(f.nodes)
    THEN [f EXCEPT !.pc = "returned", !.action = "done", !.current_node = 0,
                   !.yielded = <<"done">>,
                   !.highlighted_edges = <<>>]
    ELSE LET i == PrimMinIdx(f.pq)
             weight == f.pq[i][1]
             from_node == f.pq[i][2]
             to_node == f.pq[i][3]
             rest == RemoveAt(f.pq, i)
         IN  IF to_node \in f.visited
             THEN [f EXCEPT !.pq = rest, !.yielded = <<>>]
             ELSE LET visited == f.visited \cup {to_node}
                      nbrs == AdjGet(f.adj_list, to_node)
                      pushed == PushEdges(rest, to_node, nbrs, 1, visited)
                  IN  [f EXCEPT !.pq = pushed,
                                !.mst_edges = @ \cup {<<from_node, to_node>>},
                                !.visited = visited,
                                !.total_weight = @ + weight,
                                !.current_node = to_node,
                                !.yielded = <<"add_edge">> \o
                                    [k \in 1..(Len(pushed) - Len(rest)) |-> "consider"],
                                !.highlighted_edges =
                                    IF Len(pushed) > Len(rest)
                                    THEN << <<to_node, pushed[Len(pushed)][3]>> >>
                                    ELSE << <<from_node, to_node>> >>,
                                !.action = IF Len(pushed) > Len(rest)
                                           THEN "consider" ELSE "add_edge"]

----------------------------------------------------------------------------
(* Kruskal then Prim on the graph of the same input array *)

MaxArrLen == 6      \* longest input array tried
MaxVal == 4         \* array values range over 1 .. MaxVal

RECURSIVE SeqsUpTo(_, _)
SeqsUpTo(S, n) ==
    IF n = 0 THEN {<<>>}
    ELSE LET shorter == SeqsUpTo(S, n - 1)
         IN  shorter \cup {Append(q, x) : q \in {t \in shorter : Len(t) = n - 1}, x \in S}

InitMST ==
    /\ arr \in SeqsUpTo(1..MaxVal, MaxArrLen)
    /\ stream = <<>>
    /\ dij = NoFrame
    /\ ast = NoFrame
    /\ bfs = NoFrame
    /\ kru = NoFrame
    /\ prm = NoFrame
    /\ uf = NoFrame
    /\ calls = {}
    /\ dfs = NoFrame
    /\ dijk = NoFrame
    /\ astr = NoFrame
    /\ dgrid = NoFrame
    /\ agrid = NoFrame
    /\ rng = Unseeded
    /\ gui = NoWindows
    /\ log = <<>>

KruskalStart ==
    /\ kru.pc = "new"
    /\ kru' = KruskalBegin(arr)
    /\ UNCHANGED <<arr, stream, dij, ast, bfs, prm, uf, calls,
                     dfs, dijk, astr, dgrid, agrid, rng, gui, log>>

KruskalStep ==
    /\ kru.pc = "loop"
    /\ kru' = KruskalPass(kru)
    /\ UNCHANGED <<arr, stream, dij, ast, bfs, prm, uf, calls,
                     dfs, dijk, astr, dgrid, agrid, rng, gui, log>>

PrimStart ==
    /\ kru.pc = "returned"
    /\ prm.pc = "new"
    /\ prm' = PrimBegin(arr)
    /\ UNCHANGED <<arr, stream, dij, ast, bfs, kru, uf, calls,
                     dfs, dijk, astr, dgrid, agrid, rng, gui, log>>

PrimStep ==
    /\ prm.pc = "loop"
    /\ prm' = PrimPass(prm)
    /\ UNCHANGED <<arr, stream, dij, ast, bfs, kru, uf, calls,
                     dfs, dijk, astr, dgrid, agrid, rng, gui, log>>

NextMST == KruskalStart \/ KruskalStep \/ PrimStart \/ PrimStep

SpecMST == InitMST /\ [][NextMST]_vars

----------------------------------------------------------------------------
(* Kruskal then Prim on arrays whose graph can come out disconnected: a   *)
(* value that is not among the eight smallest is no node, so the array    *)
(* elements on its two sides are not joined through it                     *)

ForestSplit == 2        \* the values left of the separator are 1 .. ForestSplit
ForestLeftLen == 2      \* longest run of elements left of the separator

\* the smallest value that _generate_graph drops when all smaller ones occur
Separator == MaxGraphNodes + 1

\* the values right of the separator, ascending, then at most one more of them
RightRuns ==
    LET chain == [i \in 1..(MaxGraphNodes - ForestSplit) |-> ForestSplit + i]
    IN  {chain \o tail : tail \in SeqsUpTo((ForestSplit + 1)..MaxGraphNodes, 1)}

InitForest ==
    /\ arr \in {left \o <<Separator>> \o right :
                   left \in SeqsUpTo(1..ForestSplit, ForestLeftLen) \ {<<>>},
                   right \in RightRuns}
    /\ stream = <<>>
    /\ dij = NoFrame
    /\ ast = NoFrame
    /\ bfs = NoFrame
    /\ kru = NoFrame
    /\ prm = NoFrame
    /\ uf = NoFrame
    /\ calls = {}
    /\ dfs = NoFrame
    /\ dijk = NoFrame
    /\ astr = NoFrame
    /\ dgrid = NoFrame
    /\ agrid = NoFrame
    /\ rng = Unseeded
    /\ gui = NoWindows
    /\ log = <<>>

\* a consumer that started a generator keeps calling next() on it
SpecForest ==
    InitForest /\ [][NextMST]_vars /\ WF_vars(KruskalStep) /\ WF_vars(PrimStep)

----------------------------------------------------------------------------
(* Kruskal's loop on the five-node topology of the specification's        *)
(* scenario, the weights drawn from a bounded range                        *)

MaxScenarioWeight == 4

\* the nodes A .. E of the scenario are numbered 1 .. 5
ScenarioNodes == <<1, 2, 3, 4, 5>>

\* AB, BC, AC, CD, DE with the weights w
ScenarioEdges(w) ==
    << <<1, 2, w[1]>>, <<2, 3, w[2]>>, <<1, 3, w[3]>>,
       <<3, 4, w[4]>>, <<4, 5, w[5]>> >>

InitScenario ==
    /\ arr = <<>>
    /\ stream = <<>>
    /\ dij = NoFrame
    /\ ast = NoFrame
    /\ bfs = NoFrame
    /\ \E w \in [1..5 -> 1..MaxScenarioWeight] :
          kru = KruskalInit(ScenarioNodes, ScenarioEdges(w))
    /\ prm = NoFrame
    /\ uf = NoFrame
    /\ calls = {}
    /\ dfs = NoFrame
    /\ dijk = NoFrame
    /\ astr = NoFrame
    /\ dgrid = NoFrame
    /\ agrid = NoFrame
    /\ rng = Unseeded
    /\ gui = NoWindows
    /\ log = <<>>

\* kruskal on the graphs of _generate_graph and on the scenario topology
InitKruskal == InitMST \/ InitScenario

NextKruskal == KruskalStart \/ KruskalStep

SpecKruskal == InitKruskal /\ [][NextKruskal]_vars

----------------------------------------------------------------------------
(* The two search loops on small layered topologies in which any edge     *)
(* between adjacent layers may be missing                                  *)

MaxTopoWeight == 2

TopoLayers == << << <<0, 0>> >>, << <<1, 0>>, <<1, 1>> >>, << <<2, 0>> >> >>

TopoPairs ==
    << << <<0, 0>>, <<1, 0>> >>, << <<0, 0>>, <<1, 1>> >>,
       << <<1, 0>>, <<2, 0>> >>, << <<1, 1>>, <<2, 0>> >> >>

\* the graph holding pair k with weight w[k], or without it when w[k] = 0
RECURSIVE TopoGraph(_, _, _)
TopoGraph(w, k, acc) ==
    IF k > Len(TopoPairs) THEN acc
    ELSE TopoGraph(w, k + 1,
             IF w[k] = 0 THEN acc
             ELSE AddEdge(acc, TopoPairs[k][1], TopoPairs[k][2], w[k]))

TopoGraphs ==
    {LET nodes == Flatten(TopoLayers, 1)
         g == TopoGraph(w, 1, [edges |-> <<>>,
                               adj_list |-> [n \in Range(nodes) |-> <<>>]])
     IN  [nodes |-> nodes, edges |-> g.edges, adj_list |-> g.adj_list,
          start |-> <<0, 0>>, goal |-> <<2, 0>>, layers |-> TopoLayers]
     : w \in [1..Len(TopoPairs) -> 0..MaxTopoWeight]}

InitTopo ==
    /\ arr = <<>>
    /\ stream = <<>>
    /\ \E g \in TopoGraphs :
          /\ dij = DijkstraInit(g)
          /\ ast = AstarInit(g)
    /\ bfs = NoFrame
    /\ kru = NoFrame
    /\ prm = NoFrame
    /\ uf = NoFrame
    /\ calls = {}
    /\ dfs = NoFrame
    /\ dijk = NoFrame
    /\ astr = NoFrame
    /\ dgrid = NoFrame
    /\ agrid = NoFrame
    /\ rng = Unseeded
    /\ gui = NoWindows
    /\ log = <<>>

NextTopo == DijkstraStep \/ AstarStep

SpecTopo == InitTopo /\ [][NextTopo]_vars

----------------------------------------------------------------------------
(* A caller driving one UnionFind object with arbitrary find / union calls *)

UFNodes == 5        \* the object is built over the nodes 1 .. UFNodes
MaxUnions == 4      \* distinct pairs the caller passes to union

InitUF ==
    /\ arr = <<>>
    /\ stream = <<>>
    /\ dij = NoFrame
    /\ ast = NoFrame
    /\ bfs = NoFrame
    /\ kru = NoFrame
    /\ prm = NoFrame
    /\ uf = UnionFind(1..UFNodes)
    /\ calls = {}
    /\ dfs = NoFrame
    /\ dijk = NoFrame
    /\ astr = NoFrame
    /\ dgrid = NoFrame
    /\ agrid = NoFrame
    /\ rng = Unseeded
    /\ gui = NoWindows
    /\ log = <<>>

CallFind ==
    \E x \in 1..UFNodes :
        /\ uf' = UFFind(uf, x).uf
        /\ UNCHANGED <<arr, stream, dij, ast, bfs, kru, prm, calls,
                     dfs, dijk, astr, dgrid, agrid, rng, gui, log>>

CallUnion ==
    \E x \in 1..UFNodes, y \in 1..UFNodes :
        /\ Cardinality(calls \cup {{x, y}}) <= MaxUnions
        /\ uf' = UFUnion(uf, x, y).uf
        /\ calls' = calls \cup {{x, y}}
        /\ UNCHANGED <<arr, stream, dij, ast, bfs, kru, prm,
                     dfs, dijk, astr, dgrid, agrid, rng, gui, log>>

NextUF == CallFind \/ CallUnion

SpecUF == InitUF /\ [][NextUF]_vars

----------------------------------------------------------------------------
(* _generate_grid and graph_bfs (graph_bfs.py) *)

DefaultGridSize == 15
RemovePercent == 18

\* size = arr[0] if arr and arr[0] > 0 else 15
SizeOf(a) == IF Len(a) > 0 /\ a[1] > 0 THEN a[1] ELSE DefaultGridSize

\* directions of carve_passages_iterative and of graph_bfs
Directions == << <<-1, 0>>, <<0, 1>>, <<1, 0>>, <<0, -1>> >>

\* directions of the wall scan and of has_path
ScanDirections == << <<-1, 0>>, <<1, 0>>, <<0, -1>>, <<0, 1>> >>

InGrid(rows, cols, x, y) == 0 <= x /\ x < rows /\ 0 <= y /\ y < cols

SetCell(grid, x, y, v) == [grid EXCEPT ![x] = [@ EXCEPT ![y] = v]]

\* index of the first shuffled direction whose cell two steps away is a
\* wall inside the grid, 0 when there is none
FirstUnvisited(grid, rows, cols, cx, cy, dirs) ==
    LET ok == {k \in 1..Len(dirs) :
                  LET nx == cx + dirs[k][1] * 2
                      ny == cy + dirs[k][2] * 2
                  IN  InGrid(rows, cols, nx, ny) /\ grid[nx][ny] = 1}
    IN  IF ok = {} THEN 0 ELSE SetMin(ok)

\* carve_passages_iterative: one pass of the `while stack:` loop on the
\* locals s; an empty stack has ended the loop
CarvePass(s, rows, cols) ==
    IF Len(s.stack) = 0 THEN s
    ELSE LET cx == s.stack[Len(s.stack)][1]
             cy == s.stack[Len(s.stack)][2]
             sh == Shuffle(s.r, Directions)
             k == FirstUnvisited(s.grid, rows, cols, cx, cy, sh.v)
         IN  IF k = 0
             THEN [r |-> sh.r, grid |-> s.grid,
                   stack |-> SubSeq(s.stack, 1, Len(s.stack) - 1)]
             ELSE LET dx == sh.v[k][1]
                      dy == sh.v[k][2]
                  IN  [r |-> sh.r,
                       grid |-> SetCell(SetCell(s.grid, cx + dx, cy + dy, 0),
                                        cx + dx * 2, cy + dy * 2, 0),
                       stack |-> Append(s.stack, <<cx + dx * 2, cy + dy * 2>>)]

\* n passes of the loop, the first half of them before the second
RECURSIVE CarvePasses(_, _, _, _)
CarvePasses(s, n, rows, cols) ==
    IF n = 0 THEN s
    ELSE IF n = 1 THEN CarvePass(s, rows, cols)
    ELSE LET half == CarvePasses(s, n \div 2, rows, cols)
         IN  \* the test has TLC finish the first half before the second; a
             \* stack is never shorter than empty
             IF Len(half.stack) >= 0
             THEN CarvePasses(half, n - (n \div 2), rows, cols)
             ELSE half

\* carve_passages_iterative: the `while stack:` loop. A pass pushes a cell
\* that was a wall and clears it, or pops a cell, so the stack is empty after
\* at most two passes per cell and one more
CarvePassages(r, grid, stack, rows, cols) ==
    LET s == CarvePasses([r |-> r, grid |-> grid, stack |-> stack],
                         2 * rows * cols + 1, rows, cols)
    IN  [v |-> s.grid, r |-> s.r]

\* the two border loops
MakeBorders(grid, rows, cols) ==
    [i \in 0..(rows - 1) |->
        [j \in 0..(cols - 1) |->
            IF i = 0 \/ i = rows - 1 \/ j = 0 \/ j = cols - 1 THEN 1 ELSE grid[i][j]]]

\* the cells of range(2, rows-2) x range(2, cols-2) in scan order
InnerCells(rows, cols) ==
    IF rows < 5 \/ cols < 5 THEN <<>>
    ELSE [k \in 1..((rows - 4) * (cols - 4)) |->
             <<2 + ((k - 1) \div (cols - 4)), 2 + ((k - 1) % (cols - 4))>>]

\* neighbors_path of the wall scan
NeighborsPath(grid, rows, cols, i, j) ==
    Cardinality({d \in 1..Len(ScanDirections) :
        LET ni == i + ScanDirections[d][1]
            nj == j + ScanDirections[d][2]
        IN  InGrid(rows, cols, ni, nj) /\ grid[ni][nj] = 0})

IsWallCell(grid, rows, cols, cell) ==
    /\ grid[cell[1]][cell[2]] = 1
    /\ NeighborsPath(grid, rows, cols, cell[1], cell[2]) >= 2

\* wall_cells: the inner walls with at least two open neighbours, in scan
\* order
WallCells(grid, rows, cols) ==
    SelectSeq(InnerCells(rows, cols), LAMBDA cell : IsWallCell(grid, rows, cols, cell))

\* num_to_remove = int(len(wall_cells) * 0.18)
NumToRemove(n) == (n * RemovePercent) \div 100

\* grid[r][c] = 0 for the first n cells of the shuffled wall_cells
RECURSIVE RemoveWalls(_, _, _, _)
RemoveWalls(grid, cells, i, n) ==
    IF i > n THEN grid
    ELSE RemoveWalls(SetCell(grid, cells[i][1], cells[i][2], 0), cells, i + 1, n)

\* the neighbours has_path appends for the cell (r, c), in its order
RECURSIVE HasPathNeighbors(_, _, _, _, _, _, _)
HasPathNeighbors(grid, rows, cols, cell, d, queue, visited) ==
    IF d > Len(ScanDirections) THEN [queue |-> queue, visited |-> visited]
    ELSE LET nr == cell[1] + ScanDirections[d][1]
             nc == cell[2] + ScanDirections[d][2]
         IN  IF InGrid(rows, cols, nr, nc) /\ grid[nr][nc] = 0 /\ <<nr, nc>> \notin visited
             THEN HasPathNeighbors(grid, rows, cols, cell, d + 1,
                                   Append(queue, <<nr, nc>>), visited \cup {<<nr, nc>>})
             ELSE HasPathNeighbors(grid, rows, cols, cell, d + 1, queue, visited)

\* has_path(grid, start, end): one pass of the `while queue:` loop on the
\* locals s; the loop has ended when the end was dequeued or the queue is
\* empty
HasPathPass(s, grid, rows, cols, end) ==
    IF s.found \/ Len(s.queue) = 0 THEN s
    ELSE IF s.queue[1] = end THEN [s EXCEPT !.found = TRUE]
    ELSE LET n == HasPathNeighbors(grid, rows, cols, s.queue[1], 1, Tail(s.queue),
                                   s.visited)
         IN  [queue |-> n.queue, visited |-> n.visited, found |-> FALSE]

\* n passes of the loop, the first half of them before the second
RECURSIVE HasPathPasses(_, _, _, _, _, _)
HasPathPasses(s, n, grid, rows, cols, end) ==
    IF n = 0 THEN s
    ELSE IF n = 1 THEN HasPathPass(s, grid, rows, cols, end)
    ELSE LET half == HasPathPasses(s, n \div 2, grid, rows, cols, end)
         IN  \* the test has TLC finish the first half before the second; a
             \* queue is never shorter than empty
             IF Len(half.queue) >= 0
             THEN HasPathPasses(half, n - (n \div 2), grid, rows, cols, end)
             ELSE half

\* has_path(grid, start, end): the `while queue:` loop. Every pass dequeues
\* a cell and no cell is enqueued twice, so the loop has ended after one
\* pass per cell and one more
HasPathLoop(grid, rows, cols, end, queue, visited) ==
    HasPathPasses([queue |-> queue, visited |-> visited, found |-> FALSE],
                  rows * cols + 1, grid, rows, cols, end).found

\* the check is skipped: a path is taken to exist
has_path_assumed(grid, rows, cols, start, end) == TRUE

has_path(grid, rows, cols, start, end) ==
    HasPathLoop(grid, rows, cols, end, <<start>>, {start})

\* no direct path is carved
NoFallback(grid, r, c, end) == grid

\* the fallback: carve down, then right, from (r, c) to end
RECURSIVE CarveDirect(_, _, _, _)
CarveDirect(grid, r, c, end) ==
    IF <<r, c>> = end THEN grid
    ELSE IF ~(r < end[1]) /\ ~(c < end[2]) THEN SetCell(grid, r, c, 0)
    ELSE LET r2 == IF r < end[1] THEN r + 1 ELSE r
             c2 == IF r < end[1] THEN c ELSE IF c < end[2] THEN c + 1 ELSE c
         IN  CarveDirect(SetCell(SetCell(grid, r, c, 0), r2, c2, 0), r2, c2, end)

\* `while (r, c) != end` comes to its end: it does not reach a cell that is
\* not end and from which neither r nor c moves any more
RECURSIVE DirectWalkEnds(_, _, _)
DirectWalkEnds(r, c, end) ==
    IF <<r, c>> = end THEN TRUE
    ELSE IF r < end[1] THEN DirectWalkEnds(r + 1, c, end)
    ELSE IF c < end[2] THEN DirectWalkEnds(r, c + 1, end)
    ELSE FALSE

\* the last statements of _generate_grid: the direct path when the check
\* found none, then start and end cleared. outcome is "hangs" when the
\* direct-path loop never ends
GridChecked(start, end, carve, num_removed, r, removed, found) ==
    IF ~found /\ ~DirectWalkEnds(start[1], start[2], end)
    THEN [outcome |-> "hangs", r |-> r]
    ELSE [outcome |-> "returned",
          grid |-> SetCell(SetCell(IF found THEN removed
                                   ELSE CarveDirect(removed, start[1], start[2], end),
                                   start[1], start[2], 0),
                           end[1], end[2], 0),
          start |-> start, end |-> end,
          carved |-> carve.v, num_removed |-> num_removed,
          had_path |-> found, r |-> r]

\* the walls chosen by the shuffle are removed and the path is checked
GridAfterShuffle(rows, cols, start, end, carve, bordered, sh) ==
    LET num_to_remove == NumToRemove(Len(sh.v))
    IN  \* the guard has TLC evaluate the shuffle before the next stage
        CASE sh.r.pos >= 0 ->
        GridChecked(start, end, carve, Min(num_to_remove, Len(sh.v)), sh.r,
                    RemoveWalls(bordered, sh.v, 1, Min(num_to_remove, Len(sh.v))),
                    has_path(RemoveWalls(bordered, sh.v, 1, Min(num_to_remove, Len(sh.v))),
                             rows, cols, start, end))

\* the borders are made walls and the removable walls are shuffled
GridAfterBorders(rows, cols, start, end, carve, bordered) ==
    \* the guard has TLC evaluate the borders before the next stage
    CASE bordered[0][0] = 1 ->
    GridAfterShuffle(rows, cols, start, end, carve, bordered,
                     Shuffle(carve.r, WallCells(bordered, rows, cols)))

\* the maze is carved, the end cell is cleared
GridAfterCarve(rows, cols, start, end, carve) ==
    \* the guard has TLC evaluate the carving before the next stage
    CASE carve.r.pos >= 0 ->
    GridAfterBorders(rows, cols, start, end, carve,
                     MakeBorders(SetCell(carve.v, end[1], end[2], 0), rows, cols))

\* the grid of all walls, reseeded, with the start cell cleared; outcome is
\* "IndexError" when grid[start[0]][start[1]] lies outside the grid
GridOfSize(rows, cols, start, r0) ==
    IF ~InGrid(rows, cols, start[1], start[2])
    THEN [outcome |-> "IndexError", r |-> r0]
    ELSE GridAfterCarve(rows, cols, start, <<rows - 2, cols - 2>>,
             CarvePassages(r0,
                 SetCell([i \in 0..(rows - 1) |-> [j \in 0..(cols - 1) |-> 1]],
                         start[1], start[2], 0),
                 <<start>>, rows, cols))

generate_grid(r, a, pat) ==
    GridOfSize(SizeOf(a), SizeOf(a), <<1, 1>>, Reseed(r, pat))

\* path.reverse() left out: the cells come end first
RECURSIVE BfsWalkUnreversed(_, _)
BfsWalkUnreversed(parent, node) ==
    IF node \in DOMAIN parent
    THEN <<node>> \o BfsWalkUnreversed(parent, parent[node])
    ELSE <<>>

\* the path graph_bfs rebuilds from parent, start first
RECURSIVE BfsWalk(_, _)
BfsWalk(parent, node) ==
    IF node \in DOMAIN parent
    THEN Append(BfsWalk(parent, parent[node]), node)
    ELSE <<>>

\* a neighbour is marked visited only when it is dequeued: the loop enqueues
\* it without visited.add
RECURSIVE BfsNeighborsLateMark(_, _, _)
BfsNeighborsLateMark(f, current, d) ==
    IF d > Len(Directions) THEN [f EXCEPT !.visited = @ \cup {current}]
    ELSE LET new_row == current[1] + Directions[d][1]
             new_col == current[2] + Directions[d][2]
             neighbor == <<new_row, new_col>>
         IN  IF /\ InGrid(f.rows, f.cols, new_row, new_col)
                /\ f.grid[new_row][new_col] # 1
                /\ neighbor \notin f.visited
             THEN BfsNeighborsLateMark(
                      [f EXCEPT !.parent = [n \in DOMAIN @ \cup {neighbor} |->
                                               IF n = neighbor THEN current ELSE @[n]],
                                !.queue = Append(@, neighbor),
                                !.enqueued = Append(@, neighbor),
                                !.stack_queue =
                                    [type |-> "queue",
                                     items |-> Append(f.queue, neighbor)],
                                !.action = "enqueue"],
                      current, d + 1)
             ELSE BfsNeighborsLateMark(f, current, d + 1)

\* the pointer written the wrong way round: parent[current] = neighbor
RECURSIVE BfsNeighborsPointerReversed(_, _, _)
BfsNeighborsPointerReversed(f, current, d) ==
    IF d > Len(Directions) THEN f
    ELSE LET new_row == current[1] + Directions[d][1]
             new_col == current[2] + Directions[d][2]
             neighbor == <<new_row, new_col>>
         IN  IF /\ InGrid(f.rows, f.cols, new_row, new_col)
                /\ f.grid[new_row][new_col] # 1
                /\ neighbor \notin f.visited
             THEN BfsNeighborsPointerReversed(
                      [f EXCEPT !.visited = @ \cup {neighbor},
                                !.parent = [n \in DOMAIN @ \cup {current} |->
                                               IF n = current THEN neighbor ELSE @[n]],
                                !.queue = Append(@, neighbor),
                                !.enqueued = Append(@, neighbor),
                                !.stack_queue =
                                    [type |-> "queue",
                                     items |-> Append(f.queue, neighbor)],
                                !.action = "enqueue"],
                      current, d + 1)
             ELSE BfsNeighborsPointerReversed(f, current, d + 1)

\* the `for dr, dc in directions` loop of graph_bfs
RECURSIVE BfsNeighbors(_, _, _)
BfsNeighbors(f, current, d) ==
    IF d > Len(Directions) THEN f
    ELSE LET new_row == current[1] + Directions[d][1]
             new_col == current[2] + Directions[d][2]
             neighbor == <<new_row, new_col>>
         IN  IF /\ InGrid(f.rows, f.cols, new_row, new_col)
                /\ f.grid[new_row][new_col] # 1
                /\ neighbor \notin f.visited
             THEN BfsNeighbors([f EXCEPT !.visited = @ \cup {neighbor},
                                         !.parent = [n \in DOMAIN @ \cup {neighbor} |->
                                                        IF n = neighbor THEN current ELSE @[n]],
                                         !.queue = Append(@, neighbor),
                                         !.enqueued = Append(@, neighbor),
                                         !.stack_queue =
                                             [type |-> "queue",
                                              items |-> Append(f.queue, neighbor)],
                                         !.action = "enqueue"],
                               current, d + 1)
             ELSE BfsNeighbors(f, current, d + 1)

\* the locals of graph_bfs at its first yield, g being what _generate_grid
\* gave; enqueued lists the cells put into the queue so far: the one of
\* deque([start]) and those of the queue.append calls
BfsInit(g, size) ==
    IF g.outcome = "IndexError" THEN [pc |-> "raised", action |-> "IndexError"]
    ELSE IF g.outcome = "hangs" THEN [pc |-> "hangs", action |-> "none"]
    ELSE [pc |-> "loop", action |-> "start",
          grid |-> g.grid, start |-> g.start, end |-> g.end,
          rows |-> size, cols |-> size,
          carved |-> g.carved, num_removed |-> g.num_removed, had_path |-> g.had_path,
          queue |-> <<g.start>>, visited |-> {g.start},
          enqueued |-> <<g.start>>,
          stack_queue |-> [type |-> "queue", items |-> <<g.start>>],
          parent |-> <<>>, current |-> <<>>, path |-> <<>>]

\* graph_bfs up to its first yield
BfsBegin(r, a, pat) ==
    IF Len(a) = 0 THEN [pc |-> "returned", action |-> "none"]
    ELSE BfsInit(generate_grid(r, a, pat), SizeOf(a))

\* the random generator after graph_bfs began
RandomAfterGrid(r, a, pat) ==
    IF Len(a) = 0 THEN r ELSE generate_grid(r, a, pat).r

\* the loop going on after the 'found' step instead of returning
BfsPassGoesOn(f) ==
    IF Len(f.queue) = 0
    THEN [f EXCEPT !.pc = "returned", !.action = "done", !.current = <<>>, !.path = <<>>,
                   !.stack_queue = [type |-> "queue", items |-> <<>>]]
    ELSE LET current == f.queue[1]
             popped == [f EXCEPT !.queue = Tail(@), !.current = current,
                                 !.stack_queue = [type |-> "queue",
                                                  items |-> Tail(f.queue)],
                                 !.action = "dequeue"]
         IN  IF current = f.end
             THEN [popped EXCEPT !.action = "found",
                                 !.stack_queue = [type |-> "queue", items |-> <<>>],
                                 !.path = <<f.start>> \o BfsWalk(f.parent, f.end)]
             ELSE BfsNeighbors(popped, current, 1)

\* one pass of `while queue:`, or the step after the loop; queue is the
\* deque, stack_queue what the last step of the pass reports of it: 'found'
\* and 'done' report no items, every other step list(queue)
BfsPass(f) ==
    IF Len(f.queue) = 0
    THEN [f EXCEPT !.pc = "returned", !.action = "done", !.current = <<>>, !.path = <<>>,
                   !.stack_queue = [type |-> "queue", items |-> <<>>]]
    ELSE LET current == f.queue[1]
             popped == [f EXCEPT !.queue = Tail(@), !.current = current,
                                 !.stack_queue = [type |-> "queue",
                                                  items |-> Tail(f.queue)],
                                 !.action = "dequeue"]
         IN  IF current = f.end
             THEN [popped EXCEPT !.pc = "returned", !.action = "found",
                                 !.stack_queue = [type |-> "queue", items |-> <<>>],
                                 !.path = <<f.start>> \o BfsWalk(f.parent, f.end)]
             ELSE BfsNeighbors(popped, current, 1)

MinGridSize == 3
MaxGridSize == 8
GridStreamLen == 4

InitGrid ==
    /\ arr \in {<<n>> : n \in MinGridSize..MaxGridSize}
    /\ stream \in [1..GridStreamLen -> 0..(RawMax - 1)]
    /\ dij = NoFrame
    /\ ast = NoFrame
    /\ bfs = NoFrame
    /\ kru = NoFrame
    /\ prm = NoFrame
    /\ uf = NoFrame
    /\ calls = {}
    /\ dfs = NoFrame
    /\ dijk = NoFrame
    /\ astr = NoFrame
    /\ dgrid = NoFrame
    /\ agrid = NoFrame
    /\ rng = Unseeded
    /\ gui = NoWindows
    /\ log = <<>>

\* first next() on graph_bfs(arr)
BfsStart ==
    /\ bfs.pc = "new"
    /\ bfs' = BfsBegin(rng, arr, stream)
    /\ rng' = RandomAfterGrid(rng, arr, stream)
    /\ UNCHANGED <<arr, stream, dij, ast, kru, prm, uf, calls,
                     dfs, dijk, astr, dgrid, agrid, gui, log>>

BfsStep ==
    /\ bfs.pc = "loop"
    /\ bfs' = BfsPass(bfs)
    /\ UNCHANGED <<arr, stream, dij, ast, kru, prm, uf, calls,
                     dfs, dijk, astr, dgrid, agrid, rng, gui, log>>

NextGrid == BfsStart \/ BfsStep

SpecGrid == InitGrid /\ [][NextGrid]_vars

----------------------------------------------------------------------------
(* graph_bfs on the grid size of the scenario, the generator drained by a  *)
(* consumer that keeps calling next()                                      *)

\* the smallest size of test_100x100_grid.py, the size of the scenario
ScenarioGridSize == 10

ScenarioStreamLen == 2  \* period of the raw stream in these runs

InitScenarioGrid ==
    /\ arr = <<ScenarioGridSize>>
    /\ stream \in [1..ScenarioStreamLen -> 0..(RawMax - 1)]
    /\ dij = NoFrame
    /\ ast = NoFrame
    /\ bfs = NoFrame
    /\ kru = NoFrame
    /\ prm = NoFrame
    /\ uf = NoFrame
    /\ calls = {}
    /\ dfs = NoFrame
    /\ dijk = NoFrame
    /\ astr = NoFrame
    /\ dgrid = NoFrame
    /\ agrid = NoFrame
    /\ rng = Unseeded
    /\ gui = NoWindows
    /\ log = <<>>

SpecScenarioGrid == InitScenarioGrid /\ [][NextGrid]_vars /\ WF_vars(BfsStep)

----------------------------------------------------------------------------
(* graph_bfs on the smallest grid sizes *)

\* start = (1, 1) and end = (size - 2, size - 2) both lie inside the border
\* row and column only from this size on
HoldsStartAndEnd(size) == 1 <= size - 2

InitSmallGrid ==
    /\ arr \in {<<n>> : n \in 1..MinGridSize}
    /\ stream \in [1..GridStreamLen -> 0..(RawMax - 1)]
    /\ dij = NoFrame
    /\ ast = NoFrame
    /\ bfs = NoFrame
    /\ kru = NoFrame
    /\ prm = NoFrame
    /\ uf = NoFrame
    /\ calls = {}
    /\ dfs = NoFrame
    /\ dijk = NoFrame
    /\ astr = NoFrame
    /\ dgrid = NoFrame
    /\ agrid = NoFrame
    /\ rng = Unseeded
    /\ gui = NoWindows
    /\ log = <<>>

SpecSmallGrid == InitSmallGrid /\ [][NextGrid]_vars

----------------------------------------------------------------------------
(* A caller that invokes the two generators directly, the random module    *)
(* being used by other code in between                                     *)

MaxOps == 3             \* uses of the random module by the caller
CallerStreamLen == 2    \* period of the raw stream in these runs

\* the stream behind a seed other than the generators' own
OtherStream == <<0, 1>>

InitCaller ==
    /\ arr \in {<<n>> : n \in MinGridSize..MaxGridSize}
    /\ stream \in [1..CallerStreamLen -> 0..(RawMax - 1)]
    /\ dij = NoFrame
    /\ ast = NoFrame
    /\ bfs = NoFrame
    /\ kru = NoFrame
    /\ prm = NoFrame
    /\ uf = NoFrame
    /\ calls = {}
    /\ dfs = NoFrame
    /\ dijk = NoFrame
    /\ astr = NoFrame
    /\ dgrid = NoFrame
    /\ agrid = NoFrame
    /\ rng = Unseeded
    /\ gui = NoWindows
    /\ log = <<>>

\* _generate_grid(arr) called directly
CallGenerateGrid ==
    /\ Len(log) < MaxOps
    /\ LET g == generate_grid(rng, arr, stream)
       IN  /\ log' = Append(log, [op |-> "grid", before |-> rng,
                                  result |-> <<g.grid, g.start, g.end>>])
           /\ rng' = g.r
    /\ UNCHANGED <<arr, stream, dij, ast, bfs, kru, prm, uf, calls,
                     dfs, dijk, astr, dgrid, agrid, gui>>

\* _generate_weighted_graph(arr) called directly
CallGenerateWeighted ==
    /\ Len(log) < MaxOps
    /\ LET g == generate_weighted_graph(rng, arr, stream)
       IN  /\ log' = Append(log, [op |-> "weighted", before |-> rng,
                                  result |-> <<g.nodes, g.edges, g.adj_list,
                                               g.start, g.goal>>])
           /\ rng' = g.r
    /\ UNCHANGED <<arr, stream, dij, ast, bfs, kru, prm, uf, calls,
                     dfs, dijk, astr, dgrid, agrid, gui>>

\* other code draws a number (random.randint(5, 100) of
\* generate_random_array) or seeds the generator with a seed of its own
OtherRandomUse ==
    /\ Len(log) < MaxOps
    /\ \/ rng' = RandInt(rng, 5, 100).r
       \/ rng' = Seed(OtherStream)
    /\ log' = Append(log, [op |-> "other", before |-> rng])
    /\ UNCHANGED <<arr, stream, dij, ast, bfs, kru, prm, uf, calls,
                     dfs, dijk, astr, dgrid, agrid, gui>>

NextCaller == CallGenerateGrid \/ CallGenerateWeighted \/ OtherRandomUse

SpecCaller == InitCaller /\ [][NextCaller]_vars

----------------------------------------------------------------------------
(* _generate_weighted_graph called with levels in and out of the range the *)
(* window offers                                                           *)

BelowZero == 2          \* the levels tried start at -BelowZero
TopLevel == 12          \* and end at TopLevel
LevelStreamLen == 1     \* period of the raw stream in these runs

InitLevels ==
    /\ arr \in {<<n>> : n \in (-BelowZero)..TopLevel}
    /\ stream \in [1..LevelStreamLen -> 0..(RawMax - 1)]
    /\ dij = NoFrame
    /\ ast = NoFrame
    /\ bfs = NoFrame
    /\ kru = NoFrame
    /\ prm = NoFrame
    /\ uf = NoFrame
    /\ calls = {}
    /\ dfs = NoFrame
    /\ dijk = NoFrame
    /\ astr = NoFrame
    /\ dgrid = NoFrame
    /\ agrid = NoFrame
    /\ rng = Unseeded
    /\ gui = NoWindows
    /\ log = <<>>

NextLevels == CallGenerateWeighted \/ OtherRandomUse

SpecLevels == InitLevels /\ [][NextLevels]_vars

\* the number of layers of a generated graph, its nodes being (layer, index)
LayersOf(nodes) == Cardinality({nodes[i][1] : i \in 1..Len(nodes)})

----------------------------------------------------------------------------
(* graph_dfs (graph_dfs.py): depth-first search on a graph built from the  *)
(* array; the module builds no grid                                        *)

\* edges.append((u, v, abs(u - v))); the adjacency lists hold plain nodes
DfsAddUndirected(g, u, v) ==
    [edges |-> Append(g.edges, <<u, v, Abs(u - v)>>),
     adj_list |-> [[g.adj_list EXCEPT ![u] = Append(@, v)]
                        EXCEPT ![v] = Append(@, u)]]

RECURSIVE DfsConnectArray(_, _, _, _)
DfsConnectArray(a, nodes, i, g) ==
    IF i > Len(a) - 1 THEN g
    ELSE IF a[i] \in Range(nodes) /\ a[i + 1] \in Range(nodes)
    THEN LET u == a[i]
             v == a[i + 1]
             weight == Abs(u - v)
         IN  IF <<u, v, weight>> \notin Range(g.edges) /\
                <<v, u, weight>> \notin Range(g.edges)
             THEN DfsConnectArray(a, nodes, i + 1, DfsAddUndirected(g, u, v))
             ELSE DfsConnectArray(a, nodes, i + 1, g)
    ELSE DfsConnectArray(a, nodes, i + 1, g)

RECURSIVE DfsConnectChain(_, _, _)
DfsConnectChain(nodes, i, g) ==
    IF i > Len(nodes) - 1 THEN g
    ELSE LET u == nodes[i]
             v == nodes[i + 1]
         IN  IF v \notin Range(g.adj_list[u])
             THEN DfsConnectChain(nodes, i + 1, DfsAddUndirected(g, u, v))
             ELSE DfsConnectChain(nodes, i + 1, g)

dfs_generate_graph(a) ==
    LET all == SortedSet(Range(a))
        nodes == SubSeq(all, 1, Min(Len(all), MaxGraphNodes))
    IN  IF Len(nodes) < 2 THEN [nodes |-> nodes, edges |-> <<>>, adj_list |-> <<>>]
        ELSE LET g0 == [edges |-> <<>>, adj_list |-> [n \in Range(nodes) |-> <<>>]]
                 g1 == DfsConnectArray(a, nodes, 1, g0)
                 g2 == IF Len(g1.edges) < Len(nodes) - 1
                       THEN DfsConnectChain(nodes, 1, g1) ELSE g1
             IN  [nodes |-> nodes, edges |-> g2.edges, adj_list |-> g2.adj_list]

\* sorted(s, reverse=True)
RECURSIVE SortedDesc(_)
SortedDesc(s) ==
    IF Len(s) = 0 THEN <<>>
    ELSE LET m == CHOOSE x \in Range(s) : \A y \in Range(s) : y <= x
             i == CHOOSE k \in 1..Len(s) : s[k] = m
         IN  <<m>> \o SortedDesc(RemoveAt(s, i))

\* the neighbours of the list that are not in visited, in order
RECURSIVE Unvisited(_, _)
Unvisited(s, visited) ==
    IF Len(s) = 0 THEN <<>>
    ELSE IF s[1] \in visited THEN Unvisited(Tail(s), visited)
    ELSE <<s[1]>> \o Unvisited(Tail(s), visited)

\* up to the first yield ('start'); current_node 0 stands for None
GraphDfsBegin(a) ==
    IF Len(a) = 0 THEN [pc |-> "returned", action |-> "none"]
    ELSE LET g == dfs_generate_graph(a) IN
         IF Len(g.nodes) = 0 THEN [pc |-> "returned", action |-> "none"]
         ELSE [pc |-> "loop", action |-> "start",
               nodes |-> g.nodes, edges |-> g.edges, adj_list |-> g.adj_list,
               stack |-> <<g.nodes[1]>>,
               visited |-> {},
               visited_order |-> <<>>,
               current_node |-> 0,
               highlighted_edges |-> <<>>]

\* `if current in visited: continue` left out: a node popped again is
\* visited again
GraphDfsPassNoSkip(f) ==
    IF Len(f.stack) = 0
    THEN [f EXCEPT !.pc = "returned", !.action = "done", !.current_node = 0,
                   !.highlighted_edges = <<>>]
    ELSE LET current == f.stack[Len(f.stack)]
             rest == SubSeq(f.stack, 1, Len(f.stack) - 1)
             visited == f.visited \cup {current}
             neighbors == SortedDesc(AdjGet(f.adj_list, current))
             pushed == Unvisited(neighbors, visited)
         IN  [f EXCEPT !.stack = rest \o pushed,
                       !.visited = visited,
                       !.visited_order = Append(@, current),
                       !.current_node = current,
                       !.highlighted_edges =
                           IF Len(pushed) > 0
                           THEN << <<current, pushed[Len(pushed)]>> >>
                           ELSE <<>>,
                       !.action = IF Len(pushed) > 0 THEN "explore" ELSE "visit"]

\* one pass of `while stack:` ('visit', then 'explore' and a push for each
\* unvisited neighbour), or the 'done' step when the stack is empty
GraphDfsPass(f) ==
    IF Len(f.stack) = 0
    THEN [f EXCEPT !.pc = "returned", !.action = "done", !.current_node = 0,
                   !.highlighted_edges = <<>>]
    ELSE LET current == f.stack[Len(f.stack)]
             rest == SubSeq(f.stack, 1, Len(f.stack) - 1)
         IN  IF current \in f.visited
             THEN [f EXCEPT !.stack = rest]
             ELSE LET visited == f.visited \cup {current}
                      neighbors == SortedDesc(AdjGet(f.adj_list, current))
                      pushed == Unvisited(neighbors, visited)
                  IN  [f EXCEPT !.stack = rest \o pushed,
                                !.visited = visited,
                                !.visited_order = Append(@, current),
                                !.current_node = current,
                                !.highlighted_edges =
                                    IF Len(pushed) > 0
                                    THEN << <<current, pushed[Len(pushed)]>> >>
                                    ELSE <<>>,
                                !.action = IF Len(pushed) > 0
                                           THEN "explore" ELSE "visit"]

----------------------------------------------------------------------------
(* dijkstra (dijkstra.py): shortest paths from the first node to all nodes *)

\* heapq on (priority, node) entries, node an integer
PairMinIdx(pq) ==
    CHOOSE i \in 1..Len(pq) :
        /\ \A j \in 1..Len(pq) : ~TupleLess(pq[j], pq[i])
        /\ \A j \in 1..(i - 1) : pq[j] # pq[i]

\* the edges of the tree kept for display, after neighbor got a new parent
RepointEdge(path_edges, current, neighbor) ==
    {e \in path_edges : e[2] # neighbor /\ e[1] # neighbor} \cup {<<current, neighbor>>}

RECURSIVE DijkRelax(_, _, _)
DijkRelax(f, current, k) ==
    LET nbrs == AdjGet(f.adj_list, current) IN
    IF k > Len(nbrs) THEN f
    ELSE LET neighbor == nbrs[k][1]
             weight == nbrs[k][2]
             new_dist == f.distances[current] + weight
         IN  IF neighbor \in f.visited THEN DijkRelax(f, current, k + 1)
             ELSE IF Less(new_dist, f.distances[neighbor])
             THEN DijkRelax(
                    [f EXCEPT !.distances[neighbor] = new_dist,
                              !.parent = [n \in DOMAIN f.parent \cup {neighbor} |->
                                             IF n = neighbor THEN current ELSE f.parent[n]],
                              !.pq = HeapPush(f.pq, <<new_dist, neighbor>>),
                              !.path_edges = RepointEdge(f.path_edges, current, neighbor),
                              !.highlighted_edges = << <<current, neighbor>> >>,
                              !.action = "update"],
                    current, k + 1)
             ELSE DijkRelax([f EXCEPT !.highlighted_edges = << <<current, neighbor>> >>,
                                      !.action = "relax"], current, k + 1)

DijkBegin(a) ==
    IF Len(a) = 0 THEN [pc |-> "returned", action |-> "none"]
    ELSE LET g == generate_graph(a) IN
         IF Len(g.nodes) = 0 THEN [pc |-> "returned", action |-> "none"]
         ELSE LET start_node == g.nodes[1] IN
              [pc |-> "loop", action |-> "start",
               nodes |-> g.nodes, edges |-> g.edges, adj_list |-> g.adj_list,
               distances |-> [n \in Range(g.nodes) |->
                                 IF n = start_node THEN 0 ELSE Inf],
               pq |-> << <<0, start_node>> >>,
               visited |-> {},
               path_edges |-> {},
               parent |-> <<>>,
               current_node |-> 0,
               highlighted_edges |-> <<>>]

\* one pass of `while pq:`, or the 'done' step when the queue is empty
DijkPass(f) ==
    IF Len(f.pq) = 0
    THEN [f EXCEPT !.pc = "returned", !.action = "done", !.current_node = 0,
                   !.highlighted_edges = <<>>]
    ELSE LET i == PairMinIdx(f.pq)
             current == f.pq[i][2]
             popped == [f EXCEPT !.pq = RemoveAt(f.pq, i)]
         IN  IF current \in f.visited THEN popped
             ELSE DijkRelax([popped EXCEPT !.visited = @ \cup {current},
                                           !.current_node = current,
                                           !.highlighted_edges = <<>>,
                                           !.action = "visit"],
                            current, 1)

----------------------------------------------------------------------------
(* astar (astar.py): A* from the first node to the last on a binary tree   *)
(* built from the array. _heuristic is abs(node - goal) * 0.5: the scores  *)
(* g and f are kept doubled so that they stay integers                     *)

MaxTreeNodes == 10

\* 2 * _heuristic(node, goal)
tree_heuristic(node, goal) == Abs(node - goal)

\* for i in range(1, len(nodes)): connect nodes[i] to nodes[(i - 1) // 2]
RECURSIVE TreeEdges(_, _, _)
TreeEdges(nodes, i, g) ==
    IF i > Len(nodes) - 1 THEN g
    ELSE TreeEdges(nodes, i + 1, AddUndirected(g, nodes[((i - 1) \div 2) + 1], nodes[i + 1]))

astar_generate_graph(a) ==
    LET all == SortedSet(Range(a))
        nodes == SubSeq(all, 1, Min(Len(all), MaxTreeNodes))
    IN  IF Len(nodes) < 2 THEN [nodes |-> nodes, edges |-> <<>>, adj_list |-> <<>>]
        ELSE LET g0 == [edges |-> <<>>, adj_list |-> [n \in Range(nodes) |-> <<>>]]
                 g1 == TreeEdges(nodes, 1, g0)
             IN  [nodes |-> nodes, edges |-> g1.edges, adj_list |-> g1.adj_list]

RECURSIVE AstrRelax(_, _, _)
AstrRelax(f, current, k) ==
    LET nbrs == AdjGet(f.adj_list, current) IN
    IF k > Len(nbrs) THEN f
    ELSE LET neighbor == nbrs[k][1]
             weight == nbrs[k][2]
             tentative_g == f.g_score[current] + 2 * weight
         IN  IF neighbor \in f.visited THEN AstrRelax(f, current, k + 1)
             ELSE IF Less(tentative_g, f.g_score[neighbor])
             THEN AstrRelax(
                    [f EXCEPT !.g_score[neighbor] = tentative_g,
                              !.f_score[neighbor] =
                                  tentative_g + tree_heuristic(neighbor, f.goal_node),
                              !.parent = [n \in DOMAIN f.parent \cup {neighbor} |->
                                             IF n = neighbor THEN current ELSE f.parent[n]],
                              !.pq = HeapPush(f.pq,
                                  <<tentative_g + tree_heuristic(neighbor, f.goal_node),
                                    neighbor>>),
                              !.path_edges = RepointEdge(f.path_edges, current, neighbor),
                              !.highlighted_edges = << <<current, neighbor>> >>,
                              !.action = "update"],
                    current, k + 1)
             ELSE AstrRelax([f EXCEPT !.highlighted_edges = << <<current, neighbor>> >>,
                                      !.action = "relax"], current, k + 1)

\* final_path: the (parent, node) pairs from the goal back to the start
RECURSIVE FinalPath(_, _)
FinalPath(parent, node) ==
    IF node \in DOMAIN parent
    THEN << <<parent[node], node>> >> \o FinalPath(parent, parent[node])
    ELSE <<>>

AstrBegin(a) ==
    IF Len(a) = 0 THEN [pc |-> "returned", action |-> "none"]
    ELSE LET g == astar_generate_graph(a) IN
         IF Len(g.nodes) = 0 THEN [pc |-> "returned", action |-> "none"]
         ELSE LET start_node == g.nodes[1]
                  goal_node == g.nodes[Len(g.nodes)]
              IN  [pc |-> "loop", action |-> "start",
                   nodes |-> g.nodes, edges |-> g.edges, adj_list |-> g.adj_list,
                   goal_node |-> goal_node,
                   g_score |-> [n \in Range(g.nodes) |->
                                   IF n = start_node THEN 0 ELSE Inf],
                   f_score |-> [n \in Range(g.nodes) |->
                                   IF n = start_node
                                   THEN tree_heuristic(start_node, goal_node)
                                   ELSE Inf],
                   pq |-> << <<tree_heuristic(start_node, goal_node), start_node>> >>,
                   visited |-> {},
                   path_edges |-> {},
                   parent |-> <<>>,
                   current_node |-> 0,
                   highlighted_edges |-> <<>>,
                   final_path |-> <<>>]

\* one pass of `while pq:`, or the 'done' step when the queue is empty
AstrPass(f) ==
    IF Len(f.pq) = 0
    THEN [f EXCEPT !.pc = "returned", !.action = "done", !.current_node = 0,
                   !.highlighted_edges = <<>>]
    ELSE LET i == PairMinIdx(f.pq)
             current == f.pq[i][2]
             popped == [f EXCEPT !.pq = RemoveAt(f.pq, i)]
         IN  IF current \in f.visited THEN popped
             ELSE IF current = f.goal_node
             THEN [popped EXCEPT !.pc = "returned", !.action = "done",
                                 !.visited = @ \cup {current},
                                 !.current_node = current,
                                 !.highlighted_edges = <<>>,
                                 !.final_path = FinalPath(f.parent, f.goal_node)]
             ELSE AstrRelax([popped EXCEPT !.visited = @ \cup {current},
                                           !.current_node = current,
                                           !.highlighted_edges = <<>>,
                                           !.action = "visit"],
                            current, 1)

----------------------------------------------------------------------------
(* dijkstra_grid (dijkstra_grid.py) and astar_grid (astar_grid.py)         *)

\* the names graph_dfs.py binds at module level
GraphDfsNames == {"graph_dfs", "_generate_graph", "get_algorithm_info"}

\* `from algorithms.graph.graph_dfs import _generate_grid`, the second
\* statement of both modules, succeeds only if graph_dfs.py binds the name
ImportGenerateGrid == "_generate_grid" \in GraphDfsNames

\* importing the module and calling the generator up to its first yield;
\* the body past the guards is never reached, the import failing first
DijkstraGridBegin(r, a, pat) ==
    IF ~ImportGenerateGrid THEN [pc |-> "raised", action |-> "ImportError"]
    ELSE IF Len(a) = 0 THEN [pc |-> "returned", action |-> "none"]
    ELSE [pc |-> "loop", action |-> "start"]

AstarGridBegin(r, a, pat) ==
    IF ~ImportGenerateGrid THEN [pc |-> "raised", action |-> "ImportError"]
    ELSE IF Len(a) = 0 THEN [pc |-> "returned", action |-> "none"]
    ELSE [pc |-> "loop", action |-> "start"]

----------------------------------------------------------------------------
(* A caller that runs one of the graph entry points on an array            *)

EntryArrLen == 2        \* longest input array handed to an entry point
EntryStreamLen == 1     \* period of the raw stream in these runs

EntryPoints ==
    {"graph_dfs", "graph_bfs", "dijkstra", "dijkstra_grid", "dijkstra_weighted",
     "astar", "astar_grid", "astar_weighted", "prim", "kruskal"}

InitEntry ==
    /\ arr \in SeqsUpTo(1..MaxVal, EntryArrLen)
    /\ stream \in [1..EntryStreamLen -> 0..(RawMax - 1)]
    /\ dij = NoFrame
    /\ ast = NoFrame
    /\ bfs = NoFrame
    /\ kru = NoFrame
    /\ prm = NoFrame
    /\ uf = NoFrame
    /\ calls = {}
    /\ dfs = NoFrame
    /\ dijk = NoFrame
    /\ astr = NoFrame
    /\ dgrid = NoFrame
    /\ agrid = NoFrame
    /\ rng = Unseeded
    /\ gui = NoWindows
    /\ log = <<>>

\* the caller imports graph_dfs and asks its generator for the first step
CallGraphDfs ==
    /\ log = <<>>
    /\ dfs' = GraphDfsBegin(arr)
    /\ log' = <<[op |-> "graph_dfs", before |-> rng]>>
    /\ UNCHANGED <<arr, stream, dij, ast, bfs, kru, prm, uf,
                     calls, dijk, astr, dgrid, agrid, rng, gui>>

\* the caller imports graph_bfs and asks its generator for the first step
CallGraphBfs ==
    /\ log = <<>>
    /\ bfs' = BfsBegin(rng, arr, stream)
    /\ rng' = RandomAfterGrid(rng, arr, stream)
    /\ log' = <<[op |-> "graph_bfs", before |-> rng]>>
    /\ UNCHANGED <<arr, stream, dij, ast, kru, prm, uf, calls,
                     dfs, dijk, astr, dgrid, agrid, gui>>

\* the caller imports dijkstra and asks its generator for the first step
CallDijkstra ==
    /\ log = <<>>
    /\ dijk' = DijkBegin(arr)
    /\ log' = <<[op |-> "dijkstra", before |-> rng]>>
    /\ UNCHANGED <<arr, stream, dij, ast, bfs, kru, prm, uf,
                     calls, dfs, astr, dgrid, agrid, rng, gui>>

\* the caller imports dijkstra_grid and asks its generator for the first step
CallDijkstraGrid ==
    /\ log = <<>>
    /\ dgrid' = DijkstraGridBegin(rng, arr, stream)
    /\ log' = <<[op |-> "dijkstra_grid", before |-> rng]>>
    /\ UNCHANGED <<arr, stream, dij, ast, bfs, kru, prm, uf,
                     calls, dfs, dijk, astr, agrid, rng, gui>>

\* the caller imports dijkstra_weighted and asks its generator for the first step
CallDijkstraWeighted ==
    /\ log = <<>>
    /\ dij' = DijkstraBegin(rng, arr, stream)
    /\ rng' = RandomAfterWeighted(rng, arr, stream)
    /\ log' = <<[op |-> "dijkstra_weighted", before |-> rng]>>
    /\ UNCHANGED <<arr, stream, ast, bfs, kru, prm, uf, calls,
                     dfs, dijk, astr, dgrid, agrid, gui>>

\* the caller imports astar and asks its generator for the first step
CallAstar ==
    /\ log = <<>>
    /\ astr' = AstrBegin(arr)
    /\ log' = <<[op |-> "astar", before |-> rng]>>
    /\ UNCHANGED <<arr, stream, dij, ast, bfs, kru, prm, uf,
                     calls, dfs, dijk, dgrid, agrid, rng, gui>>

\* the caller imports astar_grid and asks its generator for the first step
CallAstarGrid ==
    /\ log = <<>>
    /\ agrid' = AstarGridBegin(rng, arr, stream)
    /\ log' = <<[op |-> "astar_grid", before |-> rng]>>
    /\ UNCHANGED <<arr, stream, dij, ast, bfs, kru, prm, uf,
                     calls, dfs, dijk, astr, dgrid, rng, gui>>

\* the caller imports astar_weighted and asks its generator for the first step
CallAstarWeighted ==
    /\ log = <<>>
    /\ ast' = AstarBegin(rng, arr, stream)
    /\ rng' = RandomAfterWeighted(rng, arr, stream)
    /\ log' = <<[op |-> "astar_weighted", before |-> rng]>>
    /\ UNCHANGED <<arr, stream, dij, bfs, kru, prm, uf, calls,
                     dfs, dijk, astr, dgrid, agrid, gui>>

\* the caller imports prim and asks its generator for the first step
CallPrim ==
    /\ log = <<>>
    /\ prm' = PrimBegin(arr)
    /\ log' = <<[op |-> "prim", before |-> rng]>>
    /\ UNCHANGED <<arr, stream, dij, ast, bfs, kru, uf, calls,
                     dfs, dijk, astr, dgrid, agrid, rng, gui>>

\* the caller imports kruskal and asks its generator for the first step
CallKruskal ==
    /\ log = <<>>
    /\ kru' = KruskalBegin(arr)
    /\ log' = <<[op |-> "kruskal", before |-> rng]>>
    /\ UNCHANGED <<arr, stream, dij, ast, bfs, prm, uf, calls,
                     dfs, dijk, astr, dgrid, agrid, rng, gui>>

GraphDfsStep ==
    /\ dfs.pc = "loop"
    /\ dfs' = GraphDfsPass(dfs)
    /\ UNCHANGED <<arr, stream, dij, ast, bfs, kru, prm, uf,
                     calls, dijk, astr, dgrid, agrid, rng, gui, log>>

DijkStep ==
    /\ dijk.pc = "loop"
    /\ dijk' = DijkPass(dijk)
    /\ UNCHANGED <<arr, stream, dij, ast, bfs, kru, prm, uf,
                     calls, dfs, astr, dgrid, agrid, rng, gui, log>>

AstrStep ==
    /\ astr.pc = "loop"
    /\ astr' = AstrPass(astr)
    /\ UNCHANGED <<arr, stream, dij, ast, bfs, kru, prm, uf,
                     calls, dfs, dijk, dgrid, agrid, rng, gui, log>>

NextEntry ==
    \/ CallGraphDfs \/ CallGraphBfs \/ CallDijkstra \/ CallDijkstraGrid
    \/ CallDijkstraWeighted \/ CallAstar \/ CallAstarGrid \/ CallAstarWeighted
    \/ CallPrim \/ CallKruskal
    \/ GraphDfsStep \/ BfsStep \/ DijkStep \/ DijkstraStep \/ AstrStep
    \/ AstarStep \/ PrimStep \/ KruskalStep

SpecEntry == InitEntry /\ [][NextEntry]_vars

\* the frame of the generator the caller started
EntryFrame(name) ==
    CASE name = "graph_dfs" -> dfs
      [] name = "graph_bfs" -> bfs
      [] name = "dijkstra" -> dijk
      [] name = "dijkstra_grid" -> dgrid
      [] name = "dijkstra_weighted" -> dij
      [] name = "astar" -> astr
      [] name = "astar_grid" -> agrid
      [] name = "astar_weighted" -> ast
      [] name = "prim" -> prm
      [] name = "kruskal" -> kru

----------------------------------------------------------------------------
(* graph_dfs on arrays long enough for cycles in the graph: a node joined  *)
(* to two visited nodes is pushed twice before it is popped                *)

DfsArrLen == 4      \* longest input array handed to graph_dfs

\* graph_dfs draws no random number: one stream stands for all
InitDfs ==
    /\ arr \in SeqsUpTo(1..MaxVal, DfsArrLen)
    /\ stream = <<0>>
    /\ dij = NoFrame
    /\ ast = NoFrame
    /\ bfs = NoFrame
    /\ kru = NoFrame
    /\ prm = NoFrame
    /\ uf = NoFrame
    /\ calls = {}
    /\ dfs = NoFrame
    /\ dijk = NoFrame
    /\ astr = NoFrame
    /\ dgrid = NoFrame
    /\ agrid = NoFrame
    /\ rng = Unseeded
    /\ gui = NoWindows
    /\ log = <<>>

NextDfs == CallGraphDfs \/ GraphDfsStep

SpecDfs == InitDfs /\ [][NextDfs]_vars

----------------------------------------------------------------------------
(* The main window's playback of a generator (main_window.py)              *)

\* self.algorithm_generator = None
NoGenerator == [pc |-> "None", action |-> "none"]

\* the canvas before any state was set
BlankCanvas == [action |-> "blank"]

\* the window after construction, an algorithm being selected; steps is
\* the sequence of states handed to canvas.set_state so far
Window(alg) ==
    [current_algorithm |-> alg,
     algorithm_generator |-> NoGenerator,
     is_running |-> FALSE,
     timer_active |-> FALSE,
     run_enabled |-> TRUE,
     step_enabled |-> TRUE,
     canvas |-> BlankCanvas,
     steps |-> <<>>,
     status |-> "Ready"]

\* the pass of prim's loop that pops an edge into a visited node and
\* continues without a yield
PrimSilent(f) ==
    /\ f.pc = "loop"
    /\ Len(f.pq) > 0
    /\ Cardinality(f.visited) < Len(f.nodes)
    /\ f.pq[PrimMinIdx(f.pq)][3] \in f.visited

\* prim resumed until its next yield
RECURSIVE PrimNext(_)
PrimNext(f) ==
    IF PrimSilent(f) THEN PrimNext(PrimPass(f)) ELSE PrimPass(f)

\* next(generator) for the generator of algorithm alg on array a: the frame
\* at the next yield; pc "returned" with the frame's action unchanged means
\* StopIteration
GeneratorNext(alg, a, g) ==
    IF g.pc = "new"
    THEN IF alg = "Kruskal's Algorithm" THEN KruskalBegin(a) ELSE PrimBegin(a)
    ELSE IF g.pc = "loop"
    THEN IF alg = "Kruskal's Algorithm" THEN KruskalPass(g) ELSE PrimNext(g)
    ELSE g

StopIteration(g, n) ==
    \/ g.pc = "returned"
    \/ g.pc = "new" /\ n.pc = "returned" /\ n.action = "none"

\* _initialize_algorithm for a graph algorithm: no dialog, a new generator
InitializeAlgorithm(w) == [w EXCEPT !.algorithm_generator = NoFrame]

on_algorithm_complete(w) ==
    [w EXCEPT !.is_running = FALSE,
              !.timer_active = FALSE,
              !.run_enabled = TRUE,
              !.step_enabled = TRUE,
              !.status = "Algorithm completed!"]

execute_step(w, a) ==
    LET g == w.algorithm_generator
        n == GeneratorNext(w.current_algorithm, a, g)
    IN  IF StopIteration(g, n)
        THEN on_algorithm_complete([w EXCEPT !.algorithm_generator = n])
        ELSE [w EXCEPT !.algorithm_generator = n,
                       !.canvas = n,
                       !.steps = Append(@, n),
                       !.status = "Action"]

on_run(w) ==
    LET i == InitializeAlgorithm(w)
    IN  [i EXCEPT !.is_running = TRUE,
                  !.run_enabled = FALSE,
                  !.step_enabled = FALSE,
                  !.timer_active = TRUE,
                  !.status = "Running algorithm..."]

on_step_restart(w, a) == execute_step(InitializeAlgorithm(w), a)

on_step(w, a) ==
    IF w.algorithm_generator = NoGenerator
    THEN execute_step(InitializeAlgorithm(w), a)
    ELSE execute_step(w, a)

PlaybackArrLen == 4     \* longest input array played back

PlaybackAlgorithms == {"Kruskal's Algorithm", "Prim's Algorithm"}

\* two windows on the same algorithm and array: "step" is driven by the
\* Step button, "run" by the Run button and its timer
InitPlayback ==
    /\ arr \in SeqsUpTo(1..MaxVal, PlaybackArrLen)
    /\ stream = <<>>
    /\ dij = NoFrame
    /\ ast = NoFrame
    /\ bfs = NoFrame
    /\ kru = NoFrame
    /\ prm = NoFrame
    /\ uf = NoFrame
    /\ calls = {}
    /\ dfs = NoFrame
    /\ dijk = NoFrame
    /\ astr = NoFrame
    /\ dgrid = NoFrame
    /\ agrid = NoFrame
    /\ rng = Unseeded
    /\ \E alg \in PlaybackAlgorithms :
           gui = [w \in {"step", "run"} |-> Window(alg)]
    /\ log = <<>>

\* the Step button of window "step" is pressed
StepClick ==
    /\ gui["step"].step_enabled
    /\ gui' = [gui EXCEPT !["step"] = on_step(@, arr)]
    /\ UNCHANGED <<arr, stream, dij, ast, bfs, kru, prm, uf, calls,
                     dfs, dijk, astr, dgrid, agrid, rng, log>>

\* the Run button of window "run" is pressed, the window being fresh
RunClick ==
    /\ gui["run"].run_enabled
    /\ gui["run"].algorithm_generator = NoGenerator
    /\ gui' = [gui EXCEPT !["run"] = on_run(@)]
    /\ UNCHANGED <<arr, stream, dij, ast, bfs, kru, prm, uf, calls,
                     dfs, dijk, astr, dgrid, agrid, rng, log>>

\* the timer of window "run" fires
TimerTimeout ==
    /\ gui["run"].timer_active
    /\ gui' = [gui EXCEPT !["run"] = execute_step(@, arr)]
    /\ UNCHANGED <<arr, stream, dij, ast, bfs, kru, prm, uf, calls,
                     dfs, dijk, astr, dgrid, agrid, rng, log>>

NextPlayback == StepClick \/ RunClick \/ TimerTimeout

SpecPlayback == InitPlayback /\ [][NextPlayback]_vars

----------------------------------------------------------------------------
(* Reference notions for the spanning-tree properties *)

\* nodes joined to the nodes of S by the undirected pairs of E
RECURSIVE JoinedTo(_, _)
JoinedTo(E, S) ==
    LET T == S \cup {x \in UNION E : \E p \in E : x \in p /\ p \cap S # {}}
    IN  IF T = S THEN S ELSE JoinedTo(E, T)

Undirected(pairs) == {{p[1], p[2]} : p \in pairs}

KruskalDone == kru.pc = "returned" /\ kru.action = "done"
PrimDone == prm.pc = "returned" /\ prm.action = "done"

(* C7: on the same connected graph, kruskal's and prim's final steps      *)
(* report the same total MST weight, and both trees have |nodes|-1 edges.  *)
C7_SameMSTWeight ==
    (KruskalDone /\ PrimDone /\
     ReachFrom(prm.adj_list, {prm.nodes[1]}) = Range(prm.nodes)) =>
        /\ kru.total_weight = prm.total_weight
        /\ Cardinality(kru.mst_edges) = Len(kru.nodes) - 1
        /\ Cardinality(prm.mst_edges) = Len(prm.nodes) - 1

\* both runs finished on a graph with a cycle where the two trees differ
C7_Witness ==
    /\ KruskalDone /\ PrimDone
    /\ ReachFrom(prm.adj_list, {prm.nodes[1]}) = Range(prm.nodes)
    /\ Len(kru.edges) > Len(kru.nodes) - 1
    /\ Undirected(kru.mst_edges) # Undirected(prm.mst_edges)

\* the pairs accepted among the first k edges of the sorted list
AcceptedBefore(f, k) ==
    Undirected({<<f.sorted_edges[j][1], f.sorted_edges[j][2]>> : j \in 1..(k - 1)}
               \cap f.mst_edges)

ScenarioWeights == <<1, 2, 3, 4, 1>>

(* C8: kruskal takes the edges in ascending weight order and accepts an   *)
(* edge exactly when its endpoints are not yet joined by the edges         *)
(* accepted before it; on the scenario graph it ends with                  *)
(* {AB, BC, CD, DE}, total weight 8, having rejected AC.                   *)
C8_KruskalAccepts ==
    kru.pc \in {"loop", "returned"} /\ kru.action # "none" =>
        /\ \A a \in 1..Len(kru.sorted_edges), b \in 1..Len(kru.sorted_edges) :
              a < b => kru.sorted_edges[a][3] <= kru.sorted_edges[b][3]
        /\ \A e \in Range(kru.edges) :
              Cardinality({a \in 1..Len(kru.sorted_edges) : kru.sorted_edges[a] = e})
                  = Cardinality({a \in 1..Len(kru.edges) : kru.edges[a] = e})
        /\ Len(kru.sorted_edges) = Len(kru.edges)
        /\ \A k \in 1..kru.i :
              LET e == kru.sorted_edges[k] IN
              (<<e[1], e[2]>> \in kru.mst_edges) <=>
                  (e[2] \notin JoinedTo(AcceptedBefore(kru, k), {e[1]}))
        /\ kru.mst_edges \subseteq
              {<<kru.sorted_edges[k][1], kru.sorted_edges[k][2]>> : k \in 1..kru.i}
        /\ (KruskalDone /\ kru.edges = ScenarioEdges(ScenarioWeights)) =>
              /\ kru.mst_edges = {<<1, 2>>, <<2, 3>>, <<3, 4>>, <<4, 5>>}
              /\ kru.total_weight = 8
              /\ \E k \in 1..kru.i : kru.sorted_edges[k] = <<1, 3, 3>>

\* the finished run on the scenario graph itself
C8_Witness ==
    /\ KruskalDone
    /\ kru.edges = ScenarioEdges(ScenarioWeights)
    /\ kru.i = 5

(* C9: after any sequence of union and find calls, find(x) = find(y)      *)
(* exactly when x and y were merged, directly or transitively, by the      *)
(* union calls; and a repeated find(x) returns the same root and changes   *)
(* no parent pointer.                                                      *)
C9_UnionFindPartition ==
    "parent" \in DOMAIN uf =>
        /\ \A x \in DOMAIN uf.parent, y \in DOMAIN uf.parent :
              (UFFind(uf, x).v = UFFind(uf, y).v) <=> (y \in JoinedTo(calls, {x}))
        /\ \A x \in DOMAIN uf.parent :
              LET f1 == UFFind(uf, x)
                  f2 == UFFind(f1.uf, x)
              IN  f2.v = f1.v /\ f2.uf = f1.uf

\* a tree of depth two next to a node that was never merged
C9_Witness ==
    /\ "parent" \in DOMAIN uf
    /\ \E x \in DOMAIN uf.parent :
          /\ uf.parent[x] # x
          /\ uf.parent[uf.parent[x]] # uf.parent[x]
    /\ \E y \in DOMAIN uf.parent :
          /\ uf.parent[y] = y
          /\ \A z \in DOMAIN uf.parent : z # y => uf.parent[z] # y

\* the search frame f ended on a graph whose goal cannot be reached
NoPathOutcome(f, dist) ==
    (f.pc = "returned" /\ f.goal \notin ReachFrom(f.adj_list, {f.start})) =>
        /\ Len(f.pq) = 0
        /\ f.action = "done"
        /\ f.description = "no_path"
        /\ f.path = <<>>
        /\ f.visited = ReachFrom(f.adj_list, {f.start})
        /\ f.stats.nodes_visited = Cardinality(f.visited)
        /\ dist[f.goal] = Inf

(* C6: when the goal cannot be reached from start, the Dijkstra and the   *)
(* A* run end once the priority queue is empty, with a terminal 'done'     *)
(* step that has an empty path, the no-path description and the visited    *)
(* set accumulated so far, and the goal's distance is still infinite.      *)
C6_NoPathTerminal ==
    /\ "goal" \in DOMAIN dij => NoPathOutcome(dij, dij.distances)
    /\ "goal" \in DOMAIN ast => NoPathOutcome(ast, ast.g_score)

\* both runs ended without a path after visiting more than the start
C6_Witness ==
    /\ "goal" \in DOMAIN dij /\ "goal" \in DOMAIN ast
    /\ dij.pc = "returned" /\ dij.description = "no_path"
    /\ ast.pc = "returned" /\ ast.description = "no_path"
    /\ Cardinality(dij.visited) >= 2
    /\ dij.distances[dij.goal] = Inf

\* the open cells joined to the cells of S by steps between open cells
RECURSIVE OpenReach(_, _, _, _)
OpenReach(grid, rows, cols, S) ==
    LET T == S \cup {c \in (0..(rows - 1)) \X (0..(cols - 1)) :
                        /\ grid[c[1]][c[2]] = 0
                        /\ \E s \in S : Abs(s[1] - c[1]) + Abs(s[2] - c[2]) = 1}
    IN  IF T = S THEN S ELSE OpenReach(grid, rows, cols, T)

(* C1: in the grid _generate_grid returns, every border cell is a wall,   *)
(* the start and end cells are open, and a path of open cells leads from   *)
(* start to end: the BFS of graph_bfs from start ends by finding end.      *)
C1_GridInvariant ==
    "grid" \in DOMAIN bfs =>
        /\ \A i \in 0..(bfs.rows - 1) :
              /\ bfs.grid[i][0] = 1 /\ bfs.grid[i][bfs.cols - 1] = 1
              /\ bfs.grid[0][i] = 1 /\ bfs.grid[bfs.rows - 1][i] = 1
        /\ bfs.grid[bfs.start[1]][bfs.start[2]] = 0
        /\ bfs.grid[bfs.end[1]][bfs.end[2]] = 0
        /\ bfs.end \in OpenReach(bfs.grid, bfs.rows, bfs.cols, {bfs.start})
        /\ bfs.pc = "returned" => bfs.action = "found"

\* a grid whose carving reached the border, that had walls removed, that
\* needed the direct path, and on which the BFS has found the end
C1_Witness ==
    /\ "grid" \in DOMAIN bfs
    /\ bfs.pc = "returned" /\ bfs.action = "found"
    /\ ~bfs.had_path
    /\ bfs.num_removed > 0
    /\ \E i \in 0..(bfs.rows - 1) : bfs.carved[bfs.rows - 1][i] = 0

(* C11: two calls of _generate_grid with the same size return the same   *)
(* grid, start and end, and two calls of _generate_weighted_graph with the *)
(* same level return the same nodes, edges, adjacency, start and goal,     *)
(* whatever use of the random module happened between the calls.           *)
C11_Deterministic ==
    \A i \in 1..Len(log), j \in 1..Len(log) :
        (log[i].op # "other" /\ log[i].op = log[j].op) =>
            log[i].result = log[j].result

\* the same generator called twice, from two different states of the
\* random generator, with another use of the random module in between
C11_Witness ==
    /\ Len(log) = 3
    /\ log[1].op # "other" /\ log[3].op = log[1].op
    /\ log[2].op = "other"
    /\ log[1].before # log[3].before
    /\ log[1].before.pat # log[3].before.pat

\* one sequence of rendered states is the start of the other
IsPrefix(s, t) == Len(s) <= Len(t) /\ SubSeq(t, 1, Len(s)) = s

\* C12: the window driven by Step clicks and the window driven by the Run
\* timer are handed the same steps in the same order, and once both have
\* completed they have rendered the same sequence and show the same final
\* state
C12_SameSteps ==
    LET s == gui["step"]
        r == gui["run"]
    IN  /\ IsPrefix(s.steps, r.steps) \/ IsPrefix(r.steps, s.steps)
        /\ (s.status = "Algorithm completed!" /\ r.status = "Algorithm completed!")
              => s.steps = r.steps /\ s.canvas = r.canvas

C12_Witness ==
    /\ gui["step"].status = "Algorithm completed!"
    /\ gui["run"].status = "Algorithm completed!"
    /\ Len(gui["run"].steps) >= 4
    /\ gui["run"].canvas.action = "done"

\* C13: for a size too small to hold a start and an end inside the border,
\* the grid generator returns an empty grid: it neither raises nor loops
\* forever
C13_SmallSizeEmptyGrid ==
    (bfs.pc # "new" /\ ~HoldsStartAndEnd(SizeOf(arr))) =>
        /\ bfs.pc \notin {"raised", "hangs"}
        /\ bfs.grid = <<>>

\* C14: every graph entry point called with an empty input produces zero
\* steps and raises no error
C14_EmptyInputNoSteps ==
    (Len(arr) = 0 /\ log # <<>>) =>
        /\ log[1].op \in EntryPoints
        /\ EntryFrame(log[1].op) = [pc |-> "returned", action |-> "none"]

\* C15: for every integer level, zero and negative levels and levels above
\* 10 included, the generated graph has max(3, min(level, 10)) layers
C15_LayersClamped ==
    \A i \in 1..Len(log) :
        log[i].op = "weighted" =>
            LayersOf(log[i].result[1]) = Max(3, Min(arr[1], 10))

----------------------------------------------------------------------------
\* the nodes of one layer of a layered graph
NodesIn(nodes, layer) == {n \in Range(nodes) : n[1] = layer}

\* some edge leaves n for the next layer
HasOutgoing(edges, n) ==
    \E i \in 1..Len(edges) : edges[i][1] = n /\ edges[i][2][1] = n[1] + 1

\* some edge enters n from the previous layer
HasIncoming(edges, n) ==
    \E i \in 1..Len(edges) : edges[i][2] = n /\ edges[i][1][1] = n[1] - 1

\* the graph of the Dijkstra run was generated for level 4
LevelFourGraph == dij.action = "start" /\ arr = <<4>>

C17_SkipEdge ==
    dij.action = "start" =>
        \E i \in 1..Len(dij.edges) :
            dij.edges[i][1] = dij.start /\ dij.edges[i][2][1] = 2

----------------------------------------------------------------------------
\* some node is not joined to the first node by the edges
Disconnected(nodes, edges) ==
    JoinedTo({{edges[i][1], edges[i][2]} : i \in 1..Len(edges)}, {nodes[1]})
        # Range(nodes)

(* C18: on a disconnected weighted graph both kruskal and prim run to      *)
(* their final 'done' step, and that step reports a forest with fewer than *)
(* |nodes|-1 edges.                                                         *)
C18_PartialForest ==
    /\ [](KruskalDone /\ Disconnected(kru.nodes, kru.edges) =>
            Cardinality(kru.mst_edges) < Len(kru.nodes) - 1)
    /\ [](PrimDone /\ Disconnected(prm.nodes, prm.edges) =>
            Cardinality(prm.mst_edges) < Len(prm.nodes) - 1)
    /\ (kru.pc = "loop" ~> KruskalDone)
    /\ (prm.pc = "loop" ~> PrimDone)

\* both runs finished on a disconnected graph that has as many edges as a
\* spanning tree would: kruskal kept a forest of two trees, prim the tree
\* of the first node
C18_Witness ==
    /\ KruskalDone /\ PrimDone
    /\ Disconnected(kru.nodes, kru.edges)
    /\ Len(kru.edges) >= Len(kru.nodes) - 1
    /\ Cardinality(kru.mst_edges) = Len(kru.nodes) - 2
    /\ Cardinality(prm.mst_edges) = ForestSplit - 1

----------------------------------------------------------------------------
\* path leads from start to end over open cells of the grid, one step
\* between neighbouring cells at a time
GridPath(grid, path, start, end) ==
    /\ Len(path) >= 1
    /\ path[1] = start /\ path[Len(path)] = end
    /\ \A k \in 1..Len(path) : grid[path[k][1]][path[k][2]] = 0
    /\ \A k \in 1..(Len(path) - 1) :
          Abs(path[k][1] - path[k + 1][1]) + Abs(path[k][2] - path[k + 1][2]) = 1

(* C19: for the grid of size N = 10 the generated grid has exactly N rows  *)
(* and N columns with start = (1,1) and end = (N-2,N-2), and graph_bfs run *)
(* on it eventually emits a 'found' step with a finite path and never ends *)
(* with the 'No path found' step.                                          *)
C19_BfsFindsEnd ==
    /\ []("grid" \in DOMAIN bfs =>
            /\ DOMAIN bfs.grid = 0..(arr[1] - 1)
            /\ \A i \in DOMAIN bfs.grid : DOMAIN bfs.grid[i] = 0..(arr[1] - 1)
            /\ bfs.start = <<1, 1>>
            /\ bfs.end = <<arr[1] - 2, arr[1] - 2>>
            /\ bfs.action # "done")
    /\ (bfs.pc = "loop" ~>
            /\ bfs.pc = "returned" /\ bfs.action = "found"
            /\ GridPath(bfs.grid, bfs.path, bfs.start, bfs.end))

\* the search on a 10 x 10 grid has ended at (8, 8) with its path
C19_Witness ==
    /\ arr = <<ScenarioGridSize>>
    /\ bfs.pc = "returned" /\ bfs.action = "found"
    /\ bfs.end = <<8, 8>>
    /\ Len(bfs.path) >= 15

----------------------------------------------------------------------------
\* the entry points test_grid_consistency.py asks for a grid
GridEntryPoints == {"graph_dfs", "graph_bfs", "dijkstra_grid", "astar_grid"}

(* C20: for the same size input, graph_dfs, graph_bfs, dijkstra_grid and   *)
(* astar_grid all report the identical grid, start and end in their first  *)
(* emitted step: each reports what _generate_grid returns for that input.  *)
C20_SameGridInFirstStep ==
    (log # <<>> /\ Len(arr) > 0 /\ log[1].op \in GridEntryPoints) =>
        LET f == EntryFrame(log[1].op)
            g == generate_grid(log[1].before, arr, stream)
        IN  g.outcome = "returned" =>
                /\ "grid" \in DOMAIN f
                /\ f.grid = g.grid
                /\ f.start = g.start
                /\ f.end = g.end

----------------------------------------------------------------------------
\* the stack of graph_dfs when the last step was emitted: an 'explore' step
\* comes before its stack.append(neighbor)
StackAtStep(f) ==
    IF f.action = "explore" THEN SubSeq(f.stack, 1, Len(f.stack) - 1) ELSE f.stack

(* C21: every step emitted by graph_dfs and graph_bfs carries, as the      *)
(* items of its stack_queue, the contents of the stack or queue as they    *)
(* are when the step is emitted, the item pushed last being last.          *)
C21_StepCarriesContainer ==
    /\ dfs.action \in {"start", "visit", "explore", "done"} =>
           /\ "stack_queue" \in DOMAIN dfs
           /\ dfs.stack_queue.items = StackAtStep(dfs)
    /\ bfs.action \in {"start", "dequeue", "enqueue", "found", "done"} =>
           /\ "stack_queue" \in DOMAIN bfs
           /\ bfs.stack_queue.items = bfs.queue

----------------------------------------------------------------------------
\* the entry the next heappop returns was pushed before every other entry
\* of the same priority (pq lists the entries in the order of their push)
PopsEarliest(pq) ==
    \A j \in 1..Len(pq) :
        pq[j][1] = pq[HeapMinIdx(pq)][1] => HeapMinIdx(pq) <= j

(* C22: in the priority queues of Dijkstra and A*, among entries of equal  *)
(* priority the entry inserted earlier is popped first.                    *)
C22_TiesByInsertion ==
    /\ (dij.pc = "loop" /\ Len(dij.pq) > 0) => PopsEarliest(dij.pq)
    /\ (ast.pc = "loop" /\ Len(ast.pq) > 0) => PopsEarliest(ast.pq)

----------------------------------------------------------------------------
\* graph_bfs run to its last step
RECURSIVE BfsDrain(_)
BfsDrain(f) == IF f.pc = "loop" THEN BfsDrain(BfsPass(f)) ELSE f

\* the entry points that search a grid for a shortest path
GridEngines == {"dijkstra_grid", "astar_grid"}

(* C23: on every generated grid dijkstra_grid and astar_grid emit steps    *)
(* and report, in their final step, the same path_length: the length of    *)
(* the path graph_bfs finds on the same grid.                              *)
C23_SamePathLength ==
    (/\ log # <<>>
     /\ Len(arr) > 0
     /\ log[1].op \in GridEngines
     /\ generate_grid(log[1].before, arr, stream).outcome = "returned") =>
        LET f == EntryFrame(log[1].op)
            b == BfsDrain(BfsBegin(log[1].before, arr, stream))
        IN  /\ f.pc \in {"loop", "returned"}
            /\ f.pc = "returned" =>
                   /\ "stats" \in DOMAIN f
                   /\ f.stats.path_length = Len(b.path)

----------------------------------------------------------------------------
\* no element occurs twice in the sequence
NoRepeat(s) == \A i, j \in 1..Len(s) : s[i] = s[j] => i = j

\* the open cells next to the cell
OpenNeighbors(grid, rows, cols, cell) ==
    {n \in {<<cell[1] + Directions[d][1], cell[2] + Directions[d][2]>> :
                d \in 1..Len(Directions)} :
        InGrid(rows, cols, n[1], n[2]) /\ grid[n[1]][n[2]] # 1}

(* C24: graph_bfs marks a cell visited when it enqueues it: at every loop  *)
(* boundary every cell of the queue is in visited, no cell is in the queue *)
(* twice, and no cell has been enqueued more than once in the run.         *)
C24_VisitedAtEnqueue ==
    "queue" \in DOMAIN bfs =>
        /\ Range(bfs.queue) \subseteq bfs.visited
        /\ NoRepeat(bfs.queue)
        /\ NoRepeat(bfs.enqueued)
        /\ Range(bfs.enqueued) = bfs.visited

\* a cell waits in the queue while two of its open neighbours have been
\* dequeued: it was met from two sides and enqueued once
C24_Witness ==
    /\ "queue" \in DOMAIN bfs
    /\ bfs.action = "enqueue"
    /\ \E c \in Range(bfs.queue) :
          Cardinality({n \in OpenNeighbors(bfs.grid, bfs.rows, bfs.cols, c) :
                          n \in bfs.visited /\ n \notin Range(bfs.queue)}) >= 2

----------------------------------------------------------------------------
\* the least number of steps between open neighbouring cells that leads
\* from a cell of S to end, counted from k; -1 when end cannot be reached
RECURSIVE Hops(_, _, _, _, _, _)
Hops(grid, rows, cols, S, end, k) ==
    IF end \in S THEN k
    ELSE LET T == S \cup UNION {OpenNeighbors(grid, rows, cols, s) : s \in S}
         IN  IF T = S THEN -1 ELSE Hops(grid, rows, cols, T, end, k + 1)

(* C25: when graph_bfs dequeues the end cell it stops with one 'found'     *)
(* step, whose path leads from start to end over open cells, neighbour to  *)
(* neighbour, in the least number of hops any such path has.               *)
C25_FoundShortestPath ==
    "queue" \in DOMAIN bfs =>
        /\ (bfs.current = bfs.end) = (bfs.action = "found")
        /\ bfs.action = "found" =>
              /\ bfs.pc = "returned"
              /\ GridPath(bfs.grid, bfs.path, bfs.start, bfs.end)
              /\ Len(bfs.path) - 1 =
                     Hops(bfs.grid, bfs.rows, bfs.cols, {bfs.start}, bfs.end, 0)

\* the end was found on a grid that offers a choice: a cell of the path
\* has three open neighbours, the search visited cells off the path, and
\* the open cells joined to start form a cycle (as many pairs of
\* neighbours as cells), so that routes of different lengths exist
C25_Witness ==
    /\ "queue" \in DOMAIN bfs
    /\ bfs.action = "found"
    /\ Len(bfs.path) >= 5
    /\ \E k \in 1..Len(bfs.path) :
          Cardinality(OpenNeighbors(bfs.grid, bfs.rows, bfs.cols, bfs.path[k])) >= 3
    /\ bfs.visited \ Range(bfs.path) # {}
    /\ LET open == OpenReach(bfs.grid, bfs.rows, bfs.cols, {bfs.start})
       IN  Cardinality({p \in open \X open :
                           /\ TupleLess(p[1], p[2])
                           /\ p[2] \in OpenNeighbors(bfs.grid, bfs.rows, bfs.cols, p[1])})
               >= Cardinality(open)

----------------------------------------------------------------------------
\* the nodes joined to a node of S over the adjacency lists of graph_dfs
RECURSIVE DfsReach(_, _)
DfsReach(adj_list, S) ==
    LET T == S \cup UNION {Range(AdjGet(adj_list, n)) : n \in S}
    IN  IF T = S THEN S ELSE DfsReach(adj_list, T)

\* what one pass of the loop of graph_dfs does with the node it pops
DfsPopEffect ==
    (dfs.pc = "loop" /\ Len(dfs.stack) > 0) =>
        LET top == dfs.stack[Len(dfs.stack)]
            rest == SubSeq(dfs.stack, 1, Len(dfs.stack) - 1)
            fresh == Range(AdjGet(dfs.adj_list, top)) \ (dfs.visited \cup {top})
        IN  IF top \in dfs.visited
            THEN dfs' = [dfs EXCEPT !.stack = rest]
            ELSE /\ dfs'.visited_order = Append(dfs.visited_order, top)
                 /\ Len(dfs'.stack) = Len(rest) + Cardinality(fresh)
                 /\ Range(dfs'.stack) = Range(rest) \cup fresh
                 /\ fresh # {} => dfs'.stack[Len(dfs'.stack)] = SetMin(fresh)

(* C26: graph_dfs emits exactly one 'visit' step (one entry of the visit   *)
(* order) for every node that can be reached from the start node; a popped *)
(* node that is already visited is dropped without a step and without a    *)
(* push, and of the unvisited neighbours pushed from a node the smallest   *)
(* is on top of the stack, to be popped first.                             *)
C26_OneVisitPerNode ==
    /\ []("stack" \in DOMAIN dfs =>
            /\ NoRepeat(dfs.visited_order)
            /\ Range(dfs.visited_order) = dfs.visited
            /\ dfs.action = "done" =>
                   dfs.visited = DfsReach(dfs.adj_list, {dfs.nodes[1]}))
    /\ [][DfsPopEffect]_vars

\* a visited node is on top of the stack, pushed a second time before its
\* first copy was popped, and is about to be skipped
C26_Witness ==
    /\ "stack" \in DOMAIN dfs
    /\ dfs.pc = "loop"
    /\ Len(dfs.stack) > 0
    /\ dfs.stack[Len(dfs.stack)] \in dfs.visited
    /\ Len(dfs.visited_order) >= 3

----------------------------------------------------------------------------
\* what a pass of the loop does to the frame f of a shortest-path engine,
\* g being the frame after it, d and e the distances before and after
FinalizeEffect(f, g, d, e) ==
    (f.pc = "loop" /\ g # f /\ Len(f.pq) > 0) =>
        LET current == f.pq[HeapMinIdx(f.pq)][2]
        IN  /\ current \in f.visited =>
                  /\ g.action = "skip_visited"
                  /\ e = d
                  /\ g.parent = f.parent
                  /\ g.visited = f.visited
            /\ \A n \in f.visited : e[n] = d[n]
            /\ f.visited \subseteq g.visited
            /\ g.visited \ f.visited \subseteq {current}
            /\ g.step - f.step = Cardinality(g.visited \ f.visited)

(* C27: dijkstra_weighted and astar_weighted finalize every node at most   *)
(* once (each finalization adds a new node to visited); popping an entry   *)
(* of a finalized node emits 'skip_visited' and leaves distances, parents  *)
(* and visited as they are; a finalized node's distance never changes.     *)
C27_FinalizedOnce ==
    /\ []("pq" \in DOMAIN dij => dij.step = Cardinality(dij.visited))
    /\ []("pq" \in DOMAIN ast => ast.step = Cardinality(ast.visited))
    /\ [][/\ FinalizeEffect(dij, dij', dij.distances, dij'.distances)
          /\ FinalizeEffect(ast, ast', ast.g_score, ast'.g_score)]_vars

\* dijkstra_weighted has just skipped an entry of a node finalized before,
\* three nodes being finalized
C27_Witness ==
    /\ dij.action = "skip_visited"
    /\ dij.current \in dij.visited
    /\ Cardinality(dij.visited) >= 3

----------------------------------------------------------------------------
(* C28: a popped node that is not yet finalized is marked finalized before *)
(* the goal test, so the terminal goal-reached step of dijkstra_weighted   *)
(* and of astar_weighted has the goal in its visited set and counts it in  *)
(* nodes_visited.                                                          *)
C28_GoalFinalized ==
    /\ DijkstraReachedGoal =>
           /\ dij.goal \in dij.visited
           /\ dij.stats.nodes_visited = Cardinality(dij.visited \cup {dij.goal})
    /\ AstarReachedGoal =>
           /\ ast.goal \in ast.visited
           /\ ast.stats.nodes_visited = Cardinality(ast.visited \cup {ast.goal})

----------------------------------------------------------------------------
\* the root of the tree of n, read off the parent pointers
RECURSIVE RootOf(_, _)
RootOf(parent, n) == IF parent[n] = n THEN n ELSE RootOf(parent, parent[n])

\* the roots of the forest
Roots(parent) == {n \in DOMAIN parent : parent[n] = n}

\* what union(a, b) must give on the object u: r is its result and the
\* object after it
UnionByRank(u, a, b, r) ==
    LET root1 == RootOf(u.parent, a)
        root2 == RootOf(u.parent, b)
        after == r.uf
    IN  IF root1 = root2
        THEN /\ r.v = FALSE
             /\ after.rank = u.rank
             /\ Roots(after.parent) = Roots(u.parent)
             /\ \A n \in DOMAIN u.parent :
                    RootOf(after.parent, n) = RootOf(u.parent, n)
        ELSE /\ r.v = TRUE
             /\ IF u.rank[root1] < u.rank[root2]
                THEN /\ after.parent[root1] = root2
                     /\ Roots(after.parent) = Roots(u.parent) \ {root1}
                     /\ after.rank = u.rank
                ELSE IF u.rank[root1] > u.rank[root2]
                THEN /\ after.parent[root2] = root1
                     /\ Roots(after.parent) = Roots(u.parent) \ {root2}
                     /\ after.rank = u.rank
                ELSE /\ after.parent[root2] = root1
                     /\ Roots(after.parent) = Roots(u.parent) \ {root2}
                     /\ after.rank = [u.rank EXCEPT ![root1] = @ + 1]

(* C30: UnionFind.union(a, b) with distinct roots attaches the root of     *)
(* lower rank under the root of higher rank and changes no rank; on a rank *)
(* tie it attaches the second root under the first and adds exactly 1 to   *)
(* the first root's rank only; with equal roots it returns False, merges   *)
(* nothing and changes no rank.                                            *)
C30_UnionByRank ==
    "parent" \in DOMAIN uf =>
        \A a \in DOMAIN uf.parent, b \in DOMAIN uf.parent :
            UnionByRank(uf, a, b, UFUnion(uf, a, b))

\* a tree of three nodes whose root has rank 1: a tie made the rank, then a
\* root of rank 0 was attached under the root of rank 1; a root of rank 0
\* is left for the next union
C30_Witness ==
    /\ "parent" \in DOMAIN uf
    /\ \E r \in Roots(uf.parent) :
          /\ uf.rank[r] = 1
          /\ Cardinality({n \in DOMAIN uf.parent : RootOf(uf.parent, n) = r}) >= 3
    /\ \E r \in Roots(uf.parent) : uf.rank[r] = 0

----------------------------------------------------------------------------
\* the nodes on the parent chain from n to its root, both included
RECURSIVE ChainOf(_, _)
ChainOf(parent, n) ==
    IF parent[n] = n THEN {n} ELSE {n} \cup ChainOf(parent, parent[n])

\* what find(x) must give on the object u: r is its result and the object
\* after it
PathCompressed(u, x, r) ==
    LET root == RootOf(u.parent, x)
        chain == ChainOf(u.parent, x)
    IN  /\ r.v = root
        /\ \A n \in chain : r.uf.parent[n] = root
        /\ \A n \in DOMAIN u.parent \ chain : r.uf.parent[n] = u.parent[n]
        /\ DOMAIN r.uf.parent = DOMAIN u.parent
        /\ \A n \in DOMAIN u.parent : RootOf(r.uf.parent, n) = RootOf(u.parent, n)

(* C31: after UnionFind.find(x) has returned the root r, every node on the *)
(* parent chain from x to r, x included, points directly to r, and the     *)
(* parent pointers of the nodes off the chain and the partition into sets  *)
(* are as before.                                                          *)
C31_PathCompression ==
    "parent" \in DOMAIN uf =>
        \A x \in DOMAIN uf.parent : PathCompressed(uf, x, UFFind(uf, x))

\* a chain of three nodes that find will shorten, and a node off that
\* chain that points to another node
C31_Witness ==
    /\ "parent" \in DOMAIN uf
    /\ \E x \in DOMAIN uf.parent :
          /\ Cardinality(ChainOf(uf.parent, x)) >= 3
          /\ \E y \in DOMAIN uf.parent \ ChainOf(uf.parent, x) : uf.parent[y] # y

----------------------------------------------------------------------------
\* following the parent pointers from n comes to a root within k steps
RECURSIVE ClimbsToRoot(_, _, _)
ClimbsToRoot(parent, n, k) ==
    IF parent[n] = n THEN TRUE
    ELSE IF k = 0 THEN FALSE
    ELSE ClimbsToRoot(parent, parent[n], k - 1)

(* C32: after any sequence of find and union calls the parent pointers     *)
(* form a forest: from every node the pointers lead to a root (a node that *)
(* is its own parent) without coming back to a node, and every node that   *)
(* is no root has a rank strictly below its parent's; so find(x) ends for  *)
(* every x.                                                                *)
C32_ParentForest ==
    "parent" \in DOMAIN uf =>
        \A n \in DOMAIN uf.parent :
            /\ uf.parent[n] \in DOMAIN uf.parent
            /\ ClimbsToRoot(uf.parent, n, Cardinality(DOMAIN uf.parent) - 1)
            /\ uf.parent[n] # n => uf.rank[n] < uf.rank[uf.parent[n]]

\* a root of rank 2 over a chain of three nodes, built by three unions
C32_Witness ==
    /\ "parent" \in DOMAIN uf
    /\ \E r \in Roots(uf.parent) : uf.rank[r] = 2
    /\ \E x \in DOMAIN uf.parent : Cardinality(ChainOf(uf.parent, x)) = 3

(***************************************************************************)
(* C33: the step sequence of kruskal                                       *)
(***************************************************************************)
\* the tree is complete: the accepted edges number |nodes| - 1
TreeComplete(f) == Cardinality(f.mst_edges) = Len(f.nodes) - 1

\* what one resumption of kruskal from frame f to frame g may emit: 'done'
\* and no further edge when the tree is complete or the list is exhausted,
\* otherwise 'consider' and one outcome, both on the next edge of the list
ConsiderThenDecide(f, g) ==
    IF TreeComplete(f) \/ f.i = Len(f.sorted_edges)
    THEN /\ g.i = f.i
         /\ g.pc = "returned"
         /\ Len(g.yielded) = 1
         /\ g.yielded[1].action = "done"
    ELSE LET e == f.sorted_edges[f.i + 1] IN
         /\ g.i = f.i + 1
         /\ Len(g.yielded) = 2
         /\ g.yielded[1].action = "consider"
         /\ g.yielded[2].action \in {"add_edge", "skip"}
         /\ g.yielded[1].highlighted_edges = << <<e[1], e[2]>> >>
         /\ g.yielded[2].highlighted_edges = << <<e[1], e[2]>> >>
         /\ \A k \in 1..f.i : f.sorted_edges[k][3] <= e[3]

\* C33: every edge kruskal takes from the sorted list gives a 'consider'
\* step followed by exactly one of 'add_edge' or 'skip' on that same edge,
\* the edges come in sorted order, and once the accepted edges number
\* |nodes| - 1 no further edge is considered and the next step is 'done'
C33_ConsiderThenDecide ==
    [][kru.pc = "loop" /\ kru' # kru => ConsiderThenDecide(kru, kru')]_vars

\* kruskal stopped on a complete tree after skipping an edge, with edges
\* of the list left unconsidered
C33_Witness ==
    /\ KruskalDone
    /\ TreeComplete(kru)
    /\ kru.i < Len(kru.sorted_edges)
    /\ kru.i > Cardinality(kru.mst_edges)

(***************************************************************************)
(* C34: the edges prim adds                                                *)
(***************************************************************************)
\* the queue entries no entry of the queue is below
LeastQueued(pq) ==
    {e \in Range(pq) : \A q \in Range(pq) : ~TripleLess(q, e)}

\* one resumption of prim's loop from frame f to frame g
PrimPassEffect(f, g) ==
    LET stale == \E e \in LeastQueued(f.pq) : e[3] \in f.visited IN
    /\ g.mst_edges # f.mst_edges =>
          \E e \in Range(f.pq) :
              /\ g.mst_edges = f.mst_edges \cup {<<e[2], e[3]>>}
              /\ e[2] \in f.visited
              /\ e[3] \notin f.visited
              /\ g.visited = f.visited \cup {e[3]}
              /\ \A q \in Range(f.pq) : e[1] <= q[1]
              /\ g.total_weight = f.total_weight + e[1]
              /\ g.yielded[1] = "add_edge"
    /\ (Len(f.pq) > 0 /\ Cardinality(f.visited) < Len(f.nodes) /\ stale) =>
          /\ g.yielded = <<>>
          /\ g.action = f.action
          /\ g.mst_edges = f.mst_edges
          /\ g.visited = f.visited
          /\ \E i \in 1..Len(f.pq) :
                f.pq[i][3] \in f.visited /\ g.pq = RemoveAt(f.pq, i)
    /\ g.yielded = <<>> => g.mst_edges = f.mst_edges /\ Len(g.pq) = Len(f.pq) - 1

\* C34: every edge prim adds joins a visited node to a node not yet visited
\* and has the least weight among the queued edges; a queue entry into a
\* visited node is discarded without a step; and in every emitted step the
\* MST edges number |visited| - 1
C34_PrimAddsLightestCrossing ==
    /\ [](prm.pc \in {"loop", "returned"} /\ prm.action # "none" =>
            Cardinality(prm.mst_edges) = Cardinality(prm.visited) - 1)
    /\ [][prm.pc = "loop" /\ prm' # prm => PrimPassEffect(prm, prm')]_vars

\* prim has just discarded an entry into a visited node, having added two
\* edges before
C34_Witness ==
    /\ prm.pc = "loop"
    /\ prm.yielded = <<>>
    /\ Cardinality(prm.mst_edges) >= 2

(***************************************************************************)
(* C35: the edge list and the adjacency map of a layered graph             *)
(***************************************************************************)
\* the number of positions of the sequence s holding x
Occurrences(s, x) == Cardinality({i \in 1..Len(s) : s[i] = x})

\* C35: in every generated layered graph each edge is stored once with an
\* integer weight in 1..10, no two stored edges share the same ordered
\* (source, target) pair, and the adjacency map is symmetric: it holds
\* (v, w) under u exactly as often as it holds (u, w) under v, and exactly
\* the stored edges in both directions
C35_EdgesOnceAdjSymmetric ==
    dij.action = "start" =>
        /\ \A i \in 1..Len(dij.edges) :
              /\ dij.edges[i][3] \in 1..10
              /\ dij.edges[i][1] \in Range(dij.nodes)
              /\ dij.edges[i][2] \in Range(dij.nodes)
              /\ \A j \in 1..Len(dij.edges) :
                    (dij.edges[j][1] = dij.edges[i][1] /\
                     dij.edges[j][2] = dij.edges[i][2]) => j = i
        /\ DOMAIN dij.adj_list = Range(dij.nodes)
        /\ \A u \in Range(dij.nodes), v \in Range(dij.nodes), w \in 1..10 :
              /\ Occurrences(dij.adj_list[u], <<v, w>>)
                    = Occurrences(dij.adj_list[v], <<u, w>>)
              /\ Occurrences(dij.adj_list[u], <<v, w>>)
                    = Occurrences(dij.edges, <<u, v, w>>)
                        + Occurrences(dij.edges, <<v, u, w>>)
        /\ \A u \in Range(dij.nodes) : \A k \in 1..Len(dij.adj_list[u]) :
              dij.adj_list[u][k][2] \in 1..10

\* a graph of at least five layers whose edges carry at least four
\* different weights, two edges leaving one interior node among them
C35_Witness ==
    /\ dij.action = "start"
    /\ Len(dij.layers) >= 5
    /\ Cardinality({dij.edges[i][3] : i \in 1..Len(dij.edges)}) >= 4
    /\ \E i, j \in 1..Len(dij.edges) :
          /\ i # j
          /\ dij.edges[i][1] = dij.edges[j][1]
          /\ dij.edges[i][1][1] >= 1

(***************************************************************************)
(* C36: connectivity of the graph built from an array                      *)
(***************************************************************************)
\* C36: for every input array with at least two distinct values the graph
\* built by _generate_graph is connected: every retained node is reachable
\* from the first node through the generated edges
C36_ArrayGraphConnected ==
    /\ kru.action = "start" => ~Disconnected(kru.nodes, kru.edges)
    /\ prm.action = "start" => ~Disconnected(prm.nodes, prm.edges)

(***************************************************************************)
(* C37: the parent pointers of the searches                                *)
(***************************************************************************)
\* following parent from n arrives at start without meeting a node of seen
\* or a node that has no pointer
RECURSIVE LeadsToStart(_, _, _, _)
LeadsToStart(parent, n, start, seen) ==
    IF n = start THEN TRUE
    ELSE IF n \in seen \/ n \notin DOMAIN parent THEN FALSE
    ELSE LeadsToStart(parent, parent[n], start, seen \cup {n})

\* the parent map of a search frame is a tree of pointers toward start
ParentTree(f) ==
    "parent" \in DOMAIN f =>
        /\ f.start \notin DOMAIN f.parent
        /\ \A n \in DOMAIN f.parent : LeadsToStart(f.parent, n, f.start, {})

\* C37: in every state of a BFS, Dijkstra or A* run the start node has no
\* parent pointer, and following the parent pointers from any node that has
\* one reaches start without repeating a node
C37_ParentsLeadToStart ==
    ParentTree(bfs) /\ ParentTree(dij) /\ ParentTree(ast)

\* dijkstra_weighted reached the goal of a four-layer graph: the goal's
\* pointers lead over two interior nodes to start
C37_Witness ==
    /\ dij.action = "done"
    /\ dij.goal \in DOMAIN dij.parent
    /\ Len(dij.path) >= 4
    /\ dij.path = ReconstructPath(dij.parent, dij.start, dij.goal)

(***************************************************************************)
(* C38: the shape of a run's step sequence                                 *)
(***************************************************************************)
\* next() on the generator the caller started
RunSteps ==
    \/ GraphDfsStep \/ BfsStep \/ DijkStep \/ DijkstraStep \/ AstrStep
    \/ AstarStep \/ PrimStep \/ KruskalStep

\* a consumer that started a generator keeps calling next() on it
SpecRuns == InitEntry /\ [][NextEntry]_vars /\ WF_vars(RunSteps)

\* the frames of the generators
Runs == {dfs, bfs, dijk, dij, astr, ast, prm, kru, dgrid, agrid}

\* the actions of the steps that end a run
Terminal == {"done", "found"}

\* a generator that is running has emitted a step that is not terminal; one
\* that returned has emitted a terminal step last, or no step at all; one
\* that raised or hangs has emitted no step
RunShape(f) ==
    /\ f.pc = "loop" => f.action \notin Terminal \cup {"none"}
    /\ f.pc = "returned" => f.action \in Terminal \cup {"none"}
    /\ f.action = "found" => f = bfs

\* one resumption from frame f to frame g: the first step is 'start', a
\* generator that raises or hangs does so before its first step, and a
\* generator that returned emits nothing more
RunStep(f, g) ==
    /\ (f.pc = "new" /\ g.pc = "loop") => g.action = "start"
    /\ (f.pc = "new" /\ g.pc = "returned") => g.action = "none"
    /\ g.pc \in {"raised", "hangs"} => f.pc \in {"new", g.pc}
    /\ f.pc \in {"returned", "raised", "hangs"} => g = f
    /\ f.pc = "loop" => g.pc \in {"loop", "returned"}

\* C38: every graph-algorithm run that emits a step emits a finite sequence
\* whose first step is 'start' and whose last step is its only terminal
\* step ('done', or 'found' for BFS); nothing is emitted after it
C38_StartToTerminal ==
    /\ [](RunShape(dfs) /\ RunShape(bfs) /\ RunShape(dijk) /\ RunShape(dij) /\
          RunShape(astr) /\ RunShape(ast) /\ RunShape(prm) /\ RunShape(kru) /\
          RunShape(dgrid) /\ RunShape(agrid))
    /\ [][/\ RunStep(dfs, dfs') /\ RunStep(bfs, bfs') /\ RunStep(dijk, dijk')
          /\ RunStep(dij, dij') /\ RunStep(astr, astr') /\ RunStep(ast, ast')
          /\ RunStep(prm, prm') /\ RunStep(kru, kru')
          /\ RunStep(dgrid, dgrid') /\ RunStep(agrid, agrid')]_vars
    /\ ((\E f \in Runs : f.pc = "loop") ~> (\A f \in Runs : f.pc # "loop"))

\* graph_bfs returned with 'found' after enqueuing cells beyond the start
C38_Witness ==
    /\ bfs.pc = "returned"
    /\ bfs.action = "found"
    /\ Len(bfs.enqueued) >= 3

----------------------------------------------------------------------------
(* The main window's playback of a searching algorithm, whose Run and Step *)
(* buttons open a parameter dialog (main_window.py, linear_search.py)      *)

MaxClicks == 3          \* button presses in one behaviour
DialogArrLen == 2       \* longest array searched

\* for i in range(n): 'compare', and on a match 'found', break, then 'done';
\* 'not_found' when the loop ends without a match; i counts from 0
RECURSIVE LinearScan(_, _, _)
LinearScan(a, target, i) ==
    LET n == Len(a)
        compare == [action |-> "compare", indices |-> <<i>>,
                    current_pass |-> i + 1, target |-> target]
    IN  IF i >= n
        THEN <<[action |-> "not_found", indices |-> <<>>,
                current_pass |-> n, target |-> target]>>
        ELSE IF a[i + 1] = target
        THEN <<compare,
               [action |-> "found", indices |-> <<i>>,
                current_pass |-> i + 1, target |-> target],
               [action |-> "done", indices |-> <<i>>,
                current_pass |-> n, target |-> target]>>
        ELSE <<compare>> \o LinearScan(a, target, i + 1)

\* the states linear_search(arr, target) yields, in order
linear_search(a, target) ==
    <<[action |-> "start", indices |-> <<>>, current_pass |-> 0, target |-> target]>>
        \o LinearScan(a, target, 0)

\* the window after construction with Linear Search selected; steps is the
\* sequence of states handed to canvas.set_state so far
SearchWindow ==
    [category |-> "Searching Algorithms",
     current_algorithm |-> "Linear Search",
     algorithm_generator |-> NoGenerator,
     is_running |-> FALSE,
     timer_active |-> FALSE,
     run_enabled |-> TRUE,
     step_enabled |-> TRUE,
     pause_enabled |-> FALSE,
     canvas |-> BlankCanvas,
     steps |-> <<>>,
     status |-> "Ready"]

\* what QInputDialog.getInt returns: the value and whether OK was pressed
Replies ==
    {[ok |-> FALSE, value |-> 0]} \cup {[ok |-> TRUE, value |-> v] : v \in 1..MaxVal}

\* _initialize_algorithm in the category "Searching Algorithms": the dialog,
\* `if not ok: return`, else a new generator on a copy of the array; k counts
\* the states the generator has yielded
initialize_algorithm(w, a, reply) ==
    IF ~reply.ok THEN w
    ELSE [w EXCEPT !.algorithm_generator =
                       [pc |-> "new", action |-> "none", array |-> a,
                        target |-> reply.value, k |-> 0]]

\* execute_step: next(self.algorithm_generator) and canvas.set_state, or
\* on_algorithm_complete on StopIteration
execute_search_step(w) ==
    LET g == w.algorithm_generator
        all == linear_search(g.array, g.target)
    IN  IF g.k >= Len(all)
        THEN [on_algorithm_complete([w EXCEPT !.algorithm_generator.pc = "returned"])
                 EXCEPT !.pause_enabled = FALSE]
        ELSE [w EXCEPT !.algorithm_generator =
                           [g EXCEPT !.pc = "loop", !.k = @ + 1,
                                     !.action = all[g.k + 1].action],
                       !.canvas = all[g.k + 1],
                       !.steps = Append(@, all[g.k + 1]),
                       !.status = "Action"]

\* on_run with the dialog: the generator test after _initialize_algorithm
on_run_dialog(w, a, reply) ==
    LET i == initialize_algorithm(w, a, reply)
    IN  IF i.algorithm_generator = NoGenerator THEN i
        ELSE [i EXCEPT !.is_running = TRUE,
                       !.run_enabled = FALSE,
                       !.pause_enabled = TRUE,
                       !.step_enabled = FALSE,
                       !.timer_active = TRUE,
                       !.status = "Running algorithm..."]

\* on_step with the dialog, which opens only when there is no generator
on_step_dialog(w, a, reply) ==
    IF w.algorithm_generator = NoGenerator
    THEN LET i == initialize_algorithm(w, a, reply)
         IN  IF i.algorithm_generator = NoGenerator THEN i
             ELSE execute_search_step(i)
    ELSE execute_search_step(w)

on_pause(w) ==
    [w EXCEPT !.is_running = FALSE,
              !.timer_active = FALSE,
              !.run_enabled = TRUE,
              !.pause_enabled = FALSE,
              !.step_enabled = TRUE,
              !.status = "Paused"]

on_reset(w) ==
    [w EXCEPT !.is_running = FALSE,
              !.timer_active = FALSE,
              !.algorithm_generator = NoGenerator,
              !.canvas = BlankCanvas,
              !.run_enabled = TRUE,
              !.pause_enabled = FALSE,
              !.step_enabled = TRUE,
              !.status = "Reset"]

\* one window; log lists the button presses with what became of the dialog
InitDialog ==
    /\ arr \in SeqsUpTo(1..MaxVal, DialogArrLen)
    /\ stream = <<>>
    /\ dij = NoFrame
    /\ ast = NoFrame
    /\ bfs = NoFrame
    /\ kru = NoFrame
    /\ prm = NoFrame
    /\ uf = NoFrame
    /\ calls = {}
    /\ dfs = NoFrame
    /\ dijk = NoFrame
    /\ astr = NoFrame
    /\ dgrid = NoFrame
    /\ agrid = NoFrame
    /\ rng = Unseeded
    /\ gui = [w \in {"main"} |-> SearchWindow]
    /\ log = <<>>

\* the Run button is pressed and the dialog answered
RunPressed ==
    /\ gui["main"].run_enabled
    /\ Len(log) < MaxClicks
    /\ \E reply \in Replies :
          /\ gui' = [gui EXCEPT !["main"] = on_run_dialog(@, arr, reply)]
          /\ log' = Append(log, [op |-> "run",
                                 dialog |-> IF reply.ok THEN "accepted" ELSE "cancelled"])
    /\ UNCHANGED <<arr, stream, dij, ast, bfs, kru, prm, uf, calls,
                     dfs, dijk, astr, dgrid, agrid, rng>>

\* the Step button is pressed, and the dialog answered if it opens
StepPressed ==
    /\ gui["main"].step_enabled
    /\ Len(log) < MaxClicks
    /\ \E reply \in Replies :
          /\ gui' = [gui EXCEPT !["main"] = on_step_dialog(@, arr, reply)]
          /\ log' = Append(log, [op |-> "step",
                                 dialog |-> IF gui["main"].algorithm_generator # NoGenerator
                                            THEN "none"
                                            ELSE IF reply.ok THEN "accepted"
                                            ELSE "cancelled"])
    /\ UNCHANGED <<arr, stream, dij, ast, bfs, kru, prm, uf, calls,
                     dfs, dijk, astr, dgrid, agrid, rng>>

PausePressed ==
    /\ gui["main"].pause_enabled
    /\ Len(log) < MaxClicks
    /\ gui' = [gui EXCEPT !["main"] = on_pause(@)]
    /\ log' = Append(log, [op |-> "pause", dialog |-> "none"])
    /\ UNCHANGED <<arr, stream, dij, ast, bfs, kru, prm, uf, calls,
                     dfs, dijk, astr, dgrid, agrid, rng>>

ResetPressed ==
    /\ Len(log) < MaxClicks
    /\ gui' = [gui EXCEPT !["main"] = on_reset(@)]
    /\ log' = Append(log, [op |-> "reset", dialog |-> "none"])
    /\ UNCHANGED <<arr, stream, dij, ast, bfs, kru, prm, uf, calls,
                     dfs, dijk, astr, dgrid, agrid, rng>>

\* the timer fires: timeout is connected to execute_step
TimerFires ==
    /\ gui["main"].timer_active
    /\ gui' = [gui EXCEPT !["main"] = execute_search_step(@)]
    /\ UNCHANGED <<arr, stream, dij, ast, bfs, kru, prm, uf, calls,
                     dfs, dijk, astr, dgrid, agrid, rng, log>>

NextDialog == RunPressed \/ StepPressed \/ PausePressed \/ ResetPressed \/ TimerFires

SpecDialog == InitDialog /\ [][NextDialog]_vars

(***************************************************************************)
(* C39: cancelling the parameter dialog                                    *)
(***************************************************************************)
\* the button press just made ended with the dialog cancelled
DialogCancelled == log' # log /\ log'[Len(log')].dialog = "cancelled"

\* C39: if the user cancels the parameter dialog opened by Run or Step, no
\* playback starts and no step is executed: the timer is not started,
\* is_running stays False and the canvas receives no new state, whatever
\* sequence of Run, Step, Pause and Reset came before
C39_CancelStartsNothing ==
    [][DialogCancelled =>
          /\ ~gui["main"].is_running /\ ~gui'["main"].is_running
          /\ ~gui'["main"].timer_active
          /\ gui'["main"].steps = gui["main"].steps
          /\ gui'["main"].canvas = gui["main"].canvas]_vars

=============================================================================
